---- MODULE Spec2Model ----
(***************************************************************************)
(* IOBus remote-control server: the binary wire codec, the TCP control     *)
(* plane (handshake admission, keepalive, teardown) and the UDP data plane *)
(* (per-datagram validation and routing).                                  *)
(*                                                                         *)
(* Bytes are naturals 0..255 and byte strings are sequences of them.       *)
(* A Python object reference (ClientSession) is an index into `heap`;      *)
(* None is the index 0.  time.monotonic() is kept as, for each session,    *)
(* the whole seconds elapsed since its last_pong (`age`), and the seconds  *)
(* elapsed since the keepalive task last woke (`sinceSweep`).              *)
(***************************************************************************)
EXTENDS Integers, Sequences, FiniteSets, TLC

\* ------------------------------------------------------------------ bounds

\* Number of TCP connections the listener accepts in a behaviour.
MaxConn == 2

\* Seconds past the keepalive timeout that a session's age still counts up
\* to before it saturates.
AgeSlack == 1

\* ------------------------------------------------ protocol/constants.py

PROTOCOL_VERSION == 1
DEFAULT_UDP_PORT == 9801
MAX_PAYLOAD_SIZE == 512
CLIENT_NAME_MAX_LENGTH == 32

\* ------------------------------------------------ protocol/messages.py

HANDSHAKE_REQ == 1
HANDSHAKE_ACK == 2
HANDSHAKE_REJECT == 3
PING == 16
PONG == 17
DISCONNECT == 31
MOUSE_MOVE == 32
MOUSE_CLICK == 33
MOUSE_SCROLL == 34
MOUSE_DRAG == 35
KEY_EVENT == 48
SYSTEM_ACTION == 64
LAUNCH_APP == 80
GET_SYSTEM_STATE == 95
SYSTEM_STATE_RESPONSE == 96
ACK == 97
COMMAND_ERROR == 98
ERROR == 255

MessageType ==
  { HANDSHAKE_REQ, HANDSHAKE_ACK, HANDSHAKE_REJECT, PING, PONG, DISCONNECT,
    MOUSE_MOVE, MOUSE_CLICK, MOUSE_SCROLL, MOUSE_DRAG, KEY_EVENT,
    SYSTEM_ACTION, LAUNCH_APP, GET_SYSTEM_STATE, SYSTEM_STATE_RESPONSE,
    ACK, COMMAND_ERROR, ERROR }

MouseButton == {0, 1, 2}
ClickAction == {0, 1}
KeyAction == {0, 1}

LOCK_SCREEN == 1
POWER_DIALOG == 2
SLEEP == 3
SHUTDOWN == 4
RESTART == 5

SystemActionId == {LOCK_SCREEN, POWER_DIALOG, SLEEP, SHUTDOWN, RESTART}

\* struct.calcsize of the ">"-prefixed (unpadded) formats
HEADER_SIZE == 4
MOUSE_MOVE_SIZE == 8
MOUSE_CLICK_SIZE == 6
MOUSE_SCROLL_SIZE == 8
MOUSE_DRAG_SIZE == 9
KEY_EVENT_SIZE == 8
SYSTEM_ACTION_SIZE == 5
HANDSHAKE_REQ_FIXED_SIZE == 4
HANDSHAKE_ACK_SIZE == 8
HANDSHAKE_REJECT_SIZE == 4
SYSTEM_STATE_RESPONSE_SIZE == 6
ACK_SIZE == 1
COMMAND_ERROR_SIZE == 1
HANDSHAKE_REQ_NAME_LEN == CLIENT_NAME_MAX_LENGTH
HANDSHAKE_REQ_SIZE == HANDSHAKE_REQ_FIXED_SIZE + HANDSHAKE_REQ_NAME_LEN

\* ---- big-endian integer packing (struct ">H", ">h", ">I", ">B")

U16Pack(x) == << x \div 256, x % 256 >>

U32Pack(x) ==
  << x \div 16777216, (x \div 65536) % 256, (x \div 256) % 256, x % 256 >>

I16Pack(x) == U16Pack(IF x < 0 THEN x + 65536 ELSE x)

U16Unpack(b, i) == b[i] * 256 + b[i + 1]

U32Unpack(b, i) ==
  b[i] * 16777216 + b[i + 1] * 65536 + b[i + 2] * 256 + b[i + 3]

I16Unpack(b, i) ==
  LET u == U16Unpack(b, i) IN IF u >= 32768 THEN u - 65536 ELSE u

\* Python slice data[lo:hi] (0-based, hi exclusive, clipped to the length)
Slice(s, lo, hi) ==
  LET h == IF hi < Len(s) THEN hi ELSE Len(s)
  IN  IF lo >= h THEN << >> ELSE SubSeq(s, lo + 1, h)

RECURSIVE Zeros(_)
Zeros(n) == IF n <= 0 THEN << >> ELSE << 0 >> \o Zeros(n - 1)

\* bytes.ljust(n, b"\x00")
LJustZero(s, n) == s \o Zeros(n - Len(s))

\* bytes.rstrip(b"\x00"): everything up to the last non-zero byte
RStripZero(s) ==
  LET nz == { i \in 1..Len(s) : s[i] # 0 }
  IN  IF nz = {} THEN << >>
      ELSE SubSeq(s, 1, CHOOSE i \in nz : \A j \in nz : j <= i)

\* U+FFFD, what errors="replace" substitutes for an undecodable byte
REPLACEMENT_CHAR == 65533

\* bytes.decode("utf-8", errors="replace") to a sequence of code points.
\* One-byte sequences decode to themselves; a byte that starts no valid
\* sequence is replaced.  (Two- to four-byte sequences are outside the
\* byte strings this model feeds it.)
Utf8Decode(s) ==
  [ i \in 1..Len(s) |-> IF s[i] < 128 THEN s[i] ELSE REPLACEMENT_CHAR ]

\* str.encode("utf-8") for a string of code points below 128
Utf8Encode(str) == str

\* ---- Header

HeaderEncode(version, msg_type, payload_length) ==
  << version, msg_type >> \o U16Pack(payload_length)

\* Header.decode: ValueError when short or when the type byte is no MessageType
HeaderDecode(data) ==
  IF Len(data) < HEADER_SIZE
    THEN [ exc |-> "ValueError", version |-> 0, msg_type |-> 0, payload_length |-> 0 ]
  ELSE IF data[2] \notin MessageType
    THEN [ exc |-> "ValueError", version |-> data[1], msg_type |-> data[2],
           payload_length |-> U16Unpack(data, 3) ]
  ELSE [ exc |-> "none", version |-> data[1], msg_type |-> data[2],
         payload_length |-> U16Unpack(data, 3) ]

\* a payload behind its header, as every encode() builds it
Framed(msg_type, payload) ==
  HeaderEncode(PROTOCOL_VERSION, msg_type, Len(payload)) \o payload

\* ---- HandshakeReq

HandshakeReqEncode(client_version, flags, client_name) ==
  LET name_bytes == Slice(Utf8Encode(client_name), 0, HANDSHAKE_REQ_NAME_LEN)
      name_padded == LJustZero(name_bytes, HANDSHAKE_REQ_NAME_LEN)
  IN  Framed(HANDSHAKE_REQ, U16Pack(client_version) \o U16Pack(flags) \o name_padded)

\* struct.error when fewer than the 4 fixed bytes are there
HandshakeReqDecode(payload) ==
  LET fixed == Slice(payload, 0, HANDSHAKE_REQ_FIXED_SIZE) IN
  IF Len(fixed) # HANDSHAKE_REQ_FIXED_SIZE
    THEN [ exc |-> "struct.error", client_version |-> 0, flags |-> 0, client_name |-> << >> ]
    ELSE [ exc |-> "none",
           client_version |-> U16Unpack(fixed, 1),
           flags |-> U16Unpack(fixed, 3),
           client_name |->
             Utf8Decode(RStripZero(Slice(payload, HANDSHAKE_REQ_FIXED_SIZE,
                                         HANDSHAKE_REQ_FIXED_SIZE + HANDSHAKE_REQ_NAME_LEN))) ]

\* ---- HandshakeAck / HandshakeReject

HandshakeAckEncode(server_version, flags, udp_port, keepalive_interval) ==
  Framed(HANDSHAKE_ACK,
         U16Pack(server_version) \o U16Pack(flags) \o U16Pack(udp_port)
           \o U16Pack(keepalive_interval))

HandshakeRejectEncode(server_version, reason_code) ==
  Framed(HANDSHAKE_REJECT, U16Pack(server_version) \o U16Pack(reason_code))

\* ---- header-only messages

EncodePing == HeaderEncode(PROTOCOL_VERSION, PING, 0)
EncodePong == HeaderEncode(PROTOCOL_VERSION, PONG, 0)
EncodeDisconnect == HeaderEncode(PROTOCOL_VERSION, DISCONNECT, 0)

\* "Unexpected message type: 0x" as code points
UNEXPECTED_PREFIX ==
  << 85, 110, 101, 120, 112, 101, 99, 116, 101, 100, 32, 109, 101, 115, 115,
     97, 103, 101, 32, 116, 121, 112, 101, 58, 32, 48, 120 >>

\* format(n, "X") for one hex digit
HexDigit(n) == IF n < 10 THEN 48 + n ELSE 55 + n

\* f"Unexpected message type: 0x{msg_type:02X}"
UnexpectedText(msg_type) ==
  UNEXPECTED_PREFIX \o << HexDigit(msg_type \div 16), HexDigit(msg_type % 16) >>

\* encode_error without the cap
EncodeErrorUncapped(message) == Framed(ERROR, Utf8Encode(message))

\* encode_error: the UTF-8 text capped at 256 bytes
EncodeError(message) == Framed(ERROR, Slice(Utf8Encode(message), 0, 256))

\* ---- data-plane payloads.  struct.unpack(fmt, payload[:SIZE]) raises
\* struct.error unless exactly SIZE bytes are there; an IntEnum constructor
\* raises ValueError for a value outside the enumeration.

NoMsg == [ kind |-> "none" ]

MouseMoveEncode(timestamp, dx, dy) ==
  Framed(MOUSE_MOVE, U32Pack(timestamp) \o I16Pack(dx) \o I16Pack(dy))

MouseMoveDecode(payload) ==
  LET p == Slice(payload, 0, MOUSE_MOVE_SIZE) IN
  IF Len(p) # MOUSE_MOVE_SIZE THEN [ exc |-> "struct.error", msg |-> NoMsg ]
  ELSE [ exc |-> "none",
         msg |-> [ kind |-> "MouseMove", timestamp |-> U32Unpack(p, 1),
                   dx |-> I16Unpack(p, 5), dy |-> I16Unpack(p, 7) ] ]

MouseClickEncode(timestamp, button, action) ==
  Framed(MOUSE_CLICK, U32Pack(timestamp) \o << button, action >>)

MouseClickDecode(payload) ==
  LET p == Slice(payload, 0, MOUSE_CLICK_SIZE) IN
  IF Len(p) # MOUSE_CLICK_SIZE THEN [ exc |-> "struct.error", msg |-> NoMsg ]
  ELSE IF p[5] \notin MouseButton \/ p[6] \notin ClickAction
    THEN [ exc |-> "ValueError", msg |-> NoMsg ]
  ELSE [ exc |-> "none",
         msg |-> [ kind |-> "MouseClick", timestamp |-> U32Unpack(p, 1),
                   button |-> p[5], action |-> p[6] ] ]

MouseScrollEncode(timestamp, dx, dy) ==
  Framed(MOUSE_SCROLL, U32Pack(timestamp) \o I16Pack(dx) \o I16Pack(dy))

MouseScrollDecode(payload) ==
  LET p == Slice(payload, 0, MOUSE_SCROLL_SIZE) IN
  IF Len(p) # MOUSE_SCROLL_SIZE THEN [ exc |-> "struct.error", msg |-> NoMsg ]
  ELSE [ exc |-> "none",
         msg |-> [ kind |-> "MouseScroll", timestamp |-> U32Unpack(p, 1),
                   dx |-> I16Unpack(p, 5), dy |-> I16Unpack(p, 7) ] ]

MouseDragEncode(timestamp, button, dx, dy) ==
  Framed(MOUSE_DRAG, U32Pack(timestamp) \o << button >> \o I16Pack(dx) \o I16Pack(dy))

MouseDragDecode(payload) ==
  LET p == Slice(payload, 0, MOUSE_DRAG_SIZE) IN
  IF Len(p) # MOUSE_DRAG_SIZE THEN [ exc |-> "struct.error", msg |-> NoMsg ]
  ELSE IF p[5] \notin MouseButton THEN [ exc |-> "ValueError", msg |-> NoMsg ]
  ELSE [ exc |-> "none",
         msg |-> [ kind |-> "MouseDrag", timestamp |-> U32Unpack(p, 1),
                   button |-> p[5], dx |-> I16Unpack(p, 6), dy |-> I16Unpack(p, 8) ] ]

KeyEventEncode(timestamp, action, keycode, modifiers) ==
  Framed(KEY_EVENT, U32Pack(timestamp) \o << action >> \o U16Pack(keycode) \o << modifiers >>)

KeyEventDecode(payload) ==
  LET p == Slice(payload, 0, KEY_EVENT_SIZE) IN
  IF Len(p) # KEY_EVENT_SIZE THEN [ exc |-> "struct.error", msg |-> NoMsg ]
  ELSE IF p[5] \notin KeyAction THEN [ exc |-> "ValueError", msg |-> NoMsg ]
  ELSE [ exc |-> "none",
         msg |-> [ kind |-> "KeyEvent", timestamp |-> U32Unpack(p, 1),
                   action |-> p[5], keycode |-> U16Unpack(p, 6), modifiers |-> p[8] ] ]

SystemActionEncode(timestamp, action_id) ==
  Framed(SYSTEM_ACTION, U32Pack(timestamp) \o << action_id >>)

SystemActionDecode(payload) ==
  LET p == Slice(payload, 0, SYSTEM_ACTION_SIZE) IN
  IF Len(p) # SYSTEM_ACTION_SIZE THEN [ exc |-> "struct.error", msg |-> NoMsg ]
  ELSE IF p[5] \notin SystemActionId THEN [ exc |-> "ValueError", msg |-> NoMsg ]
  ELSE [ exc |-> "none",
         msg |-> [ kind |-> "SystemAction", timestamp |-> U32Unpack(p, 1),
                   action_id |-> p[5] ] ]

\* ---- LaunchApp: timestamp, one length byte, the name

LaunchAppEncode(timestamp, app_name) ==
  LET name_bytes == Slice(Utf8Encode(app_name), 0, 128)
  IN  Framed(LAUNCH_APP, U32Pack(timestamp) \o << Len(name_bytes) >> \o name_bytes)

\* struct.error when the timestamp is short, IndexError when the length
\* byte is missing; a name shorter than its declared length is taken as is
LaunchAppDecode(payload) ==
  IF Len(Slice(payload, 0, 4)) # 4
    THEN [ exc |-> "struct.error", timestamp |-> 0, app_name |-> << >> ]
  ELSE IF Len(payload) < 5
    THEN [ exc |-> "IndexError", timestamp |-> 0, app_name |-> << >> ]
  ELSE [ exc |-> "none", timestamp |-> U32Unpack(payload, 1),
         app_name |-> Utf8Decode(Slice(payload, 5, 5 + payload[5])) ]

\* ---- responses

\* int(x * 100) for the double x nearest k/100, k in 0..100: the product of
\* 0.29, 0.57 and 0.58 with 100 falls just below the integer.  (Of the
\* values above 100 that are encoded here, 65535, 65536, 65537 and 70000,
\* none does.)
IntTimes100(k) == IF k \in {29, 57, 58} THEN k - 1 ELSE k

\* SystemStateResponse.encode with the two levels packed in the other order
SystemStateResponseSwapped(brightness, volume, is_muted, is_locked) ==
  LET b == IntTimes100(brightness) % 65536
      v == IntTimes100(volume) % 65536
      flags == (IF is_muted THEN 1 ELSE 0) + (IF is_locked THEN 2 ELSE 0)
  IN  Framed(SYSTEM_STATE_RESPONSE, U16Pack(v) \o U16Pack(b) \o U16Pack(flags))

\* SystemStateResponse.encode; brightness and volume given in hundredths
SystemStateResponseEncode(brightness, volume, is_muted, is_locked) ==
  LET b == IntTimes100(brightness) % 65536
      v == IntTimes100(volume) % 65536
      flags == (IF is_muted THEN 1 ELSE 0) + (IF is_locked THEN 2 ELSE 0)
  IN  Framed(SYSTEM_STATE_RESPONSE, U16Pack(b) \o U16Pack(v) \o U16Pack(flags))

AckEncode(app_id) == Framed(ACK, << app_id >>)

CommandErrorEncode(app_id) == Framed(COMMAND_ERROR, << app_id >>)

\* struct.unpack(fmt, payload) of the whole payload: struct.error unless it
\* has exactly the size of the format
HandshakeAckDecode(payload) ==
  IF Len(payload) # HANDSHAKE_ACK_SIZE THEN [ exc |-> "struct.error", msg |-> NoMsg ]
  ELSE [ exc |-> "none",
         msg |-> [ kind |-> "HandshakeAck", server_version |-> U16Unpack(payload, 1),
                   flags |-> U16Unpack(payload, 3), udp_port |-> U16Unpack(payload, 5),
                   keepalive_interval |-> U16Unpack(payload, 7) ] ]

HandshakeRejectDecode(payload) ==
  IF Len(payload) # HANDSHAKE_REJECT_SIZE THEN [ exc |-> "struct.error", msg |-> NoMsg ]
  ELSE [ exc |-> "none",
         msg |-> [ kind |-> "HandshakeReject", server_version |-> U16Unpack(payload, 1),
                   reason_code |-> U16Unpack(payload, 3) ] ]

\* brightness and volume come back as b / 100.0: in hundredths, b itself
SystemStateResponseDecode(payload) ==
  LET p == Slice(payload, 0, SYSTEM_STATE_RESPONSE_SIZE) IN
  IF Len(p) # SYSTEM_STATE_RESPONSE_SIZE THEN [ exc |-> "struct.error", msg |-> NoMsg ]
  ELSE LET flags == U16Unpack(p, 5) IN
       [ exc |-> "none",
         msg |-> [ kind |-> "SystemStateResponse", brightness |-> U16Unpack(p, 1),
                   volume |-> U16Unpack(p, 3), is_muted |-> flags % 2 = 1,
                   is_locked |-> (flags \div 2) % 2 = 1 ] ]

AckDecode(payload) ==
  LET p == Slice(payload, 0, ACK_SIZE) IN
  IF Len(p) # ACK_SIZE THEN [ exc |-> "struct.error", msg |-> NoMsg ]
  ELSE [ exc |-> "none", msg |-> [ kind |-> "Ack", app_id |-> p[1] ] ]

CommandErrorDecode(payload) ==
  LET p == Slice(payload, 0, COMMAND_ERROR_SIZE) IN
  IF Len(p) # COMMAND_ERROR_SIZE THEN [ exc |-> "struct.error", msg |-> NoMsg ]
  ELSE [ exc |-> "none", msg |-> [ kind |-> "CommandError", app_id |-> p[1] ] ]

\* decode_error
DecodeError(payload) == Utf8Decode(payload)

\* the encode() of a message object, or the encode_ function of its type
EncodeMessage(m) ==
  CASE m.kind = "HandshakeReq" -> HandshakeReqEncode(m.client_version, m.flags, m.client_name)
    [] m.kind = "HandshakeAck" ->
         HandshakeAckEncode(m.server_version, m.flags, m.udp_port, m.keepalive_interval)
    [] m.kind = "HandshakeReject" -> HandshakeRejectEncode(m.server_version, m.reason_code)
    [] m.kind = "Ping" -> EncodePing
    [] m.kind = "Pong" -> EncodePong
    [] m.kind = "Disconnect" -> EncodeDisconnect
    [] m.kind = "MouseMove" -> MouseMoveEncode(m.timestamp, m.dx, m.dy)
    [] m.kind = "MouseClick" -> MouseClickEncode(m.timestamp, m.button, m.action)
    [] m.kind = "MouseScroll" -> MouseScrollEncode(m.timestamp, m.dx, m.dy)
    [] m.kind = "MouseDrag" -> MouseDragEncode(m.timestamp, m.button, m.dx, m.dy)
    [] m.kind = "KeyEvent" -> KeyEventEncode(m.timestamp, m.action, m.keycode, m.modifiers)
    [] m.kind = "SystemAction" -> SystemActionEncode(m.timestamp, m.action_id)
    [] m.kind = "LaunchApp" -> LaunchAppEncode(m.timestamp, m.app_name)
    [] m.kind = "SystemStateResponse" ->
         SystemStateResponseEncode(m.brightness, m.volume, m.is_muted, m.is_locked)
    [] m.kind = "Ack" -> AckEncode(m.app_id)
    [] m.kind = "CommandError" -> CommandErrorEncode(m.app_id)
    [] m.kind = "Error" -> EncodeError(m.message)

\* _DECODERS[msg_type].decode(payload); no decoder for a header-only type
Decoders(msg_type, payload) ==
  CASE msg_type = HANDSHAKE_REQ ->
         LET d == HandshakeReqDecode(payload) IN
         IF d.exc # "none" THEN [ exc |-> d.exc, msg |-> NoMsg ]
         ELSE [ exc |-> "none",
                msg |-> [ kind |-> "HandshakeReq", client_version |-> d.client_version,
                          flags |-> d.flags, client_name |-> d.client_name ] ]
    [] msg_type = HANDSHAKE_ACK -> HandshakeAckDecode(payload)
    [] msg_type = HANDSHAKE_REJECT -> HandshakeRejectDecode(payload)
    [] msg_type = MOUSE_MOVE -> MouseMoveDecode(payload)
    [] msg_type = MOUSE_CLICK -> MouseClickDecode(payload)
    [] msg_type = MOUSE_SCROLL -> MouseScrollDecode(payload)
    [] msg_type = MOUSE_DRAG -> MouseDragDecode(payload)
    [] msg_type = KEY_EVENT -> KeyEventDecode(payload)
    [] msg_type = SYSTEM_ACTION -> SystemActionDecode(payload)
    [] msg_type = LAUNCH_APP ->
         LET d == LaunchAppDecode(payload) IN
         IF d.exc # "none" THEN [ exc |-> d.exc, msg |-> NoMsg ]
         ELSE [ exc |-> "none",
                msg |-> [ kind |-> "LaunchApp", timestamp |-> d.timestamp,
                          app_name |-> d.app_name ] ]
    [] msg_type = SYSTEM_STATE_RESPONSE -> SystemStateResponseDecode(payload)
    [] msg_type = ACK -> AckDecode(payload)
    [] msg_type = COMMAND_ERROR -> CommandErrorDecode(payload)
    [] OTHER -> [ exc |-> "none", msg |-> NoMsg ]

\* decode_message: the header, and the decoded payload or the exception
DecodeMessage(data) ==
  LET header == HeaderDecode(data) IN
  IF header.exc # "none" THEN [ exc |-> header.exc, header |-> header, msg |-> NoMsg ]
  ELSE
    LET payload == Slice(data, HEADER_SIZE, HEADER_SIZE + header.payload_length) IN
    IF header.msg_type = ERROR
      THEN [ exc |-> "none", header |-> header,
             msg |-> [ kind |-> "Error", message |-> DecodeError(payload) ] ]
    ELSE LET d == Decoders(header.msg_type, payload)
         IN  [ exc |-> d.exc, header |-> header, msg |-> d.msg ]

\* ------------------------------------------------ server/config.py

\* ServerConfig: the port is the default; the keepalive interval and the
\* timeout multiplier (defaults 5 and 3) are set through
\* IOBUS_KEEPALIVE_INTERVAL and IOBUS_KEEPALIVE_TIMEOUT_MULT
udp_port == DEFAULT_UDP_PORT
keepalive_interval == 1
keepalive_timeout_multiplier == 2

\* ServerConfig.keepalive_timeout
keepalive_timeout == keepalive_interval * keepalive_timeout_multiplier

\* ------------------------------------------------------------ the state

Conns == 1..MaxConn

\* ClientSession objects: a reference is 1..MaxConn+1, None is 0
Refs == 1..(MaxConn + 1)
None == 0

AgeCap == keepalive_timeout + AgeSlack

\* what os.urandom(4) may return
SessionIds == {305419896, 19088743}

\* addresses clients connect and send datagrams from; the peer of
\* connection c connects from ClientIP(c)
ClientIPs == {1, 2}
ClientIP(c) == ((c - 1) % 2) + 1
TcpPort(c) == 50000 + c

NullSession ==
  [ name |-> << >>, address |-> << 0, 0 >>, protocol_version |-> 0,
    session_id |-> 0, age |-> 0 ]

VARIABLES
  transport,    \* per connection: "none" (no protocol yet), "open",
                \* "closing" (close() called, connection_lost pending), "lost"
  peer,         \* TCPControlProtocol._peer
  buffer,       \* TCPControlProtocol._buffer
  session,      \* TCPControlProtocol._session, a reference
  protocols,    \* TCPControlServer._protocols
  client,       \* TCPControlServer._client, a reference
  heap,         \* the ClientSession objects
  sinceSweep,   \* seconds since the keepalive task went to sleep
  unsent,       \* per connection: bytes the peer has written that the
                \* server has not yet been handed
  ev,           \* what the last step did: its inputs, writes and calls
  stream,       \* framing: the messages the peer of connection 1 wrote
  dispatched,   \* framing: the messages _handle_message was given, in order
  run           \* main._run and what it started: where _run is (pc), the
                \* listener (TCPControlServer._server), the keepalive task,
                \* the datagram transport, and what shutdown did, in order

vars ==
  << transport, peer, buffer, session, protocols, client, heap, sinceSweep,
     unsent, ev, stream, dispatched, run >>

\* the answers of the collaborators when none is asked
NoEnv == [ rnd |-> 0, brightness |-> 0, volume |-> 0, launch |-> "started" ]

NoEv ==
  [ kind |-> "init", conn |-> 0, by |-> "", data |-> << >>, addr |-> << 0, 0 >>,
    log |-> << >>, exc |-> "none", calls |-> << >>, caught |-> "none",
    escaped |-> FALSE, after_bad |-> FALSE, pinged |-> << >>, evicted |-> << >>,
    env |-> NoEnv, held |-> None ]

\* _run after both servers started, waiting on stop_event
Serving ==
  [ pc |-> "serving", server |-> "listening", keepalive_task |-> "running",
    udp_transport |-> "open", did |-> << >> ]

\* TCPControlServer.__init__ and start()
Init ==
  /\ transport = [ c \in Conns |-> "none" ]
  /\ peer = [ c \in Conns |-> << 0, 0 >> ]
  /\ buffer = [ c \in Conns |-> << >> ]
  /\ session = [ c \in Conns |-> None ]
  /\ protocols = << >>
  /\ client = None
  /\ heap = [ r \in Refs |-> NullSession ]
  /\ sinceSweep = 0
  /\ unsent = [ c \in Conns |-> << >> ]
  /\ ev = NoEv
  /\ stream = << >>
  /\ dispatched = << >>
  /\ run = Serving

Min(S) == CHOOSE x \in S : \A y \in S : x <= y

\* Unreferenced objects are collected: their heap cell goes back to null
Collect(h, cl, se) ==
  [ r \in Refs |-> IF r = cl \/ \E c \in Conns : se[c] = r THEN h[r] ELSE NullSession ]

\* ---------------------------------------- TCPControlServer (session slot)

has_client(cl) == cl # None

set_client(cl, s) == s

\* remove_client that leaves the slot as it is
remove_client_never(cl, s) == cl

\* remove_client without the identity check
remove_client_any(cl, s) == None

\* identity comparison: only the registered session itself is removed
remove_client(cl, s) == IF cl = s THEN None ELSE cl

\* ------------------------------------------------- TCPControlProtocol
\* A connection's handler works on a record st:
\*   buffer, session   this protocol's fields
\*   client, heap      the server's slot and the session objects
\*   closing           transport.is_closing()
\*   out               the byte strings written to the transport
\*   calls             the calls made into SystemActions
\*   exc               the exception that left the handler, or "none"

\* _send: an open transport is written to, a closing one is not
Send(st, data) ==
  IF st.closing THEN st ELSE [ st EXCEPT !.out = Append(@, data) ]

\* transport.close()
Close(st) == [ st EXCEPT !.closing = TRUE ]

\* a reference no live object has
FreshRef(c, st) ==
  Min(Refs \ ({ st.client, st.session } \cup { session[d] : d \in Conns \ {c} }))

OnHandshake(c, st, payload, env) ==
  LET req == HandshakeReqDecode(payload) IN
  IF req.exc # "none" THEN [ st EXCEPT !.exc = req.exc ]
  ELSE IF req.client_version # PROTOCOL_VERSION
    THEN Send(st, HandshakeRejectEncode(PROTOCOL_VERSION, 1))
  ELSE IF has_client(st.client)
    THEN Send(st, HandshakeRejectEncode(PROTOCOL_VERSION, 2))
  ELSE
    LET r == FreshRef(c, st)
        obj == [ name |-> req.client_name, address |-> peer[c],
                 protocol_version |-> req.client_version,
                 session_id |-> env.rnd, age |-> 0 ]
        st1 == [ st EXCEPT !.heap[r] = obj, !.session = r,
                           !.client = set_client(st.client, r) ]
    IN  Send(st1, HandshakeAckEncode(PROTOCOL_VERSION, 0, udp_port, keepalive_interval))

OnPing(c, st) == Send(st, EncodePong)

\* _on_pong that leaves last_pong as it is
OnPongIgnored(c, st) == st

OnPong(c, st) ==
  IF st.session # None THEN [ st EXCEPT !.heap[st.session].age = 0 ] ELSE st

\* _on_disconnect that closes the transport and keeps the session
OnDisconnectKeepsSession(c, st) == Close(st)

OnDisconnect(c, st) ==
  LET st1 == IF st.session # None
               THEN [ st EXCEPT !.client = remove_client(st.client, st.session),
                                !.session = None ]
               ELSE st
  IN  Close(st1)

\* a call into SystemActions, with its argument
Invoke(st, method, arg) ==
  [ st EXCEPT !.calls = Append(@, [ method |-> method, arg |-> arg ]) ]

OnGetSystemState(c, st, env) ==
  LET st1 == Invoke(st, "get_brightness", << >>)
      st2 == Invoke(st1, "get_volume", << >>)
  IN  Send(st2, SystemStateResponseEncode(env.brightness, env.volume, FALSE, FALSE))

\* _on_launch_app without the check for an empty name
OnLaunchAppAnyName(c, st, payload, env) ==
  LET launch == LaunchAppDecode(payload) IN
  IF launch.exc # "none" THEN [ st EXCEPT !.exc = launch.exc ]
  ELSE
    LET st1 == Invoke(st, "launch_app", launch.app_name) IN
    IF env.launch = "raises" THEN Send(st1, CommandErrorEncode(0))
    ELSE Send(st1, AckEncode(0))

OnLaunchApp(c, st, payload, env) ==
  LET launch == LaunchAppDecode(payload) IN
  IF launch.exc # "none" THEN [ st EXCEPT !.exc = launch.exc ]
  ELSE IF launch.app_name = << >> THEN Send(st, CommandErrorEncode(0))
  ELSE
    LET st1 == Invoke(st, "launch_app", launch.app_name) IN
    IF env.launch = "raises" THEN Send(st1, CommandErrorEncode(0))
    ELSE Send(st1, AckEncode(0))

HandleMessage(c, st, header, payload, env) ==
  CASE header.msg_type = HANDSHAKE_REQ -> OnHandshake(c, st, payload, env)
    [] header.msg_type = PING -> OnPing(c, st)
    [] header.msg_type = PONG -> OnPong(c, st)
    [] header.msg_type = DISCONNECT -> OnDisconnect(c, st)
    [] header.msg_type = GET_SYSTEM_STATE -> OnGetSystemState(c, st, env)
    [] header.msg_type = LAUNCH_APP -> OnLaunchApp(c, st, payload, env)
    [] OTHER -> Send(st, EncodeError(UnexpectedText(header.msg_type)))

\* what a log entry keeps of the state around one dispatched message
Snap(st) ==
  [ client |-> st.client,
    clientObj |-> IF st.client = None THEN NullSession ELSE st.heap[st.client],
    session |-> st.session,
    sessionObj |-> IF st.session = None THEN NullSession ELSE st.heap[st.session],
    closing |-> st.closing ]

\* _handle_message, with the dispatch recorded in st.log
Dispatch(c, st, header, payload, env) ==
  LET st1 == HandleMessage(c, [ st EXCEPT !.out = << >>, !.calls = << >> ],
                           header, payload, env)
      entry == [ msg_type |-> header.msg_type, payload |-> payload,
                 pre |-> Snap(st), post |-> Snap(st1), out |-> st1.out,
                 calls |-> st1.calls, exc |-> st1.exc ]
  IN  [ st1 EXCEPT !.log = Append(st.log, entry), !.out = st.out \o st1.out,
                   !.calls = st.calls \o st1.calls ]

\* _process_buffer that returns on a header it cannot decode without
\* closing the transport
RECURSIVE ProcessBufferNoClose(_, _, _)
ProcessBufferNoClose(c, st, env) ==
  IF Len(st.buffer) < HEADER_SIZE THEN st
  ELSE
    LET header == HeaderDecode(Slice(st.buffer, 0, HEADER_SIZE)) IN
    IF header.exc # "none" THEN st
    ELSE
      LET total == HEADER_SIZE + header.payload_length IN
      IF Len(st.buffer) < total THEN st
      ELSE
        LET payload == Slice(st.buffer, HEADER_SIZE, total)
            st1 == [ st EXCEPT !.buffer = Slice(st.buffer, total, Len(st.buffer)) ]
            st2 == Dispatch(c, st1, header, payload, env)
        IN  IF st2.exc # "none" THEN st2 ELSE ProcessBufferNoClose(c, st2, env)

\* _process_buffer with "if" for "while": one message a call
ProcessBufferOnce(c, st, env) ==
  IF Len(st.buffer) < HEADER_SIZE THEN st
  ELSE
    LET header == HeaderDecode(Slice(st.buffer, 0, HEADER_SIZE)) IN
    IF header.exc # "none" THEN Close(st)
    ELSE
      LET total == HEADER_SIZE + header.payload_length IN
      IF Len(st.buffer) < total THEN st
      ELSE
        LET payload == Slice(st.buffer, HEADER_SIZE, total)
            st1 == [ st EXCEPT !.buffer = Slice(st.buffer, total, Len(st.buffer)) ]
        IN  Dispatch(c, st1, header, payload, env)

\* _process_buffer
RECURSIVE ProcessBuffer(_, _, _)
ProcessBuffer(c, st, env) ==
  IF Len(st.buffer) < HEADER_SIZE THEN st
  ELSE
    LET header == HeaderDecode(Slice(st.buffer, 0, HEADER_SIZE)) IN
    IF header.exc # "none" THEN Close(st)
    ELSE
      LET total == HEADER_SIZE + header.payload_length IN
      IF Len(st.buffer) < total THEN st
      ELSE
        LET payload == Slice(st.buffer, HEADER_SIZE, total)
            st1 == [ st EXCEPT !.buffer = Slice(st.buffer, total, Len(st.buffer)) ]
            st2 == Dispatch(c, st1, header, payload, env)
        IN  IF st2.exc # "none" THEN st2 ELSE ProcessBuffer(c, st2, env)

\* the handler's view of connection c, and the state it leaves
EnterHandler(c, data) ==
  [ buffer |-> buffer[c] \o data, session |-> session[c], client |-> client,
    heap |-> heap, closing |-> FALSE, out |-> << >>, calls |-> << >>,
    log |-> << >>, exc |-> "none" ]

\* data_received.  An exception that leaves it makes the event loop close
\* the transport (connection_lost follows).
DataReceived(c, data, env) ==
  /\ run.pc # "stopped"
  /\ transport[c] = "open"
  /\ LET st == ProcessBuffer(c, EnterHandler(c, data), env)
         se == [ session EXCEPT ![c] = st.session ]
     IN  /\ buffer' = [ buffer EXCEPT ![c] = st.buffer ]
         /\ session' = se
         /\ client' = st.client
         /\ heap' = Collect(st.heap, st.client, se)
         /\ transport' = [ transport EXCEPT
                             ![c] = IF st.closing \/ st.exc # "none"
                                      THEN "closing" ELSE "open" ]
         /\ ev' = [ NoEv EXCEPT !.kind = "data_received", !.conn = c,
                                !.log = st.log, !.exc = st.exc, !.env = env ]
  /\ UNCHANGED << peer, protocols, sinceSweep, run >>

\* connection_lost: the peer closed or dropped (transport still open), or
\* the close the server asked for completed
ConnectionLost(c) ==
  /\ run.pc # "stopped"
  /\ transport[c] \in {"open", "closing"}
  /\ LET se == [ session EXCEPT ![c] = None ]
         cl == IF session[c] # None THEN remove_client(client, session[c]) ELSE client
     IN  /\ session' = se
         /\ client' = cl
         /\ heap' = Collect(heap, cl, se)
  /\ transport' = [ transport EXCEPT ![c] = "lost" ]
  /\ unsent' = [ unsent EXCEPT ![c] = << >> ]
  /\ ev' = [ NoEv EXCEPT !.kind = "connection_lost", !.conn = c,
                         !.held = session[c],
                         !.by = IF transport[c] = "open" THEN "peer" ELSE "server" ]
  /\ UNCHANGED << peer, buffer, protocols, sinceSweep, stream, dispatched, run >>

\* connection_made
ConnectionMade(c) ==
  /\ transport' = [ transport EXCEPT ![c] = "open" ]
  /\ peer' = [ peer EXCEPT ![c] = << ClientIP(c), TcpPort(c) >> ]

\* _make_protocol, for the next connection the listener accepts, followed
\* by the new protocol's connection_made
MakeProtocol(c) ==
  /\ run.server = "listening"
  /\ transport[c] = "none"
  /\ \A d \in Conns : d < c => transport[d] # "none"
  /\ protocols' = Append(protocols, c)
  /\ ConnectionMade(c)
  /\ ev' = [ NoEv EXCEPT !.kind = "connection_made", !.conn = c ]
  /\ UNCHANGED << buffer, session, client, heap, sinceSweep, unsent, stream,
                  dispatched, run >>

\* is_alive
is_alive(c, h, timeout) ==
  IF session[c] = None THEN FALSE ELSE h[session[c]].age < timeout

\* One turn of the loop body of _keepalive_loop over the protocols from
\* index i on.  k carries client, transport, active, pinged, evicted.
RECURSIVE SweepFrom(_, _)
SweepFrom(i, k) ==
  IF i > Len(protocols) THEN k
  ELSE
    LET p == protocols[i] IN
    IF session[p] = None THEN SweepFrom(i + 1, k)
    ELSE IF is_alive(p, heap, keepalive_timeout)
      THEN SweepFrom(i + 1,
             [ k EXCEPT !.active = Append(@, p),
                        !.pinged = IF k.transport[p] = "open" THEN Append(@, p) ELSE @ ])
    ELSE SweepFrom(i + 1,
             [ k EXCEPT !.client = remove_client(k.client, session[p]),
                        !.transport[p] = IF @ = "open" THEN "closing" ELSE @,
                        !.evicted = Append(@, p) ])

\* _keepalive_loop: the task wakes keepalive_interval seconds after it went
\* to sleep and runs the loop body without yielding
Sweep ==
  /\ run.keepalive_task = "running"
  /\ sinceSweep = keepalive_interval
  /\ LET k == SweepFrom(1, [ client |-> client, transport |-> transport,
                             active |-> << >>, pinged |-> << >>, evicted |-> << >> ])
     IN  /\ client' = k.client
         /\ transport' = k.transport
         /\ protocols' = k.active
         /\ heap' = Collect(heap, k.client, session)
         /\ ev' = [ NoEv EXCEPT !.kind = "keepalive", !.pinged = k.pinged,
                                !.evicted = k.evicted ]
  /\ sinceSweep' = 0
  /\ UNCHANGED << peer, buffer, session, stream, dispatched, run >>

\* a sweep; what the peers do with the pings is up to them
KeepaliveSweep == Sweep /\ UNCHANGED unsent

\* one second passes
Tick ==
  /\ run.pc # "stopped"
  /\ sinceSweep < keepalive_interval
  /\ sinceSweep' = sinceSweep + 1
  /\ heap' = [ r \in Refs |->
                 IF heap[r] = NullSession \/ heap[r].age >= AgeCap THEN heap[r]
                 ELSE [ heap[r] EXCEPT !.age = @ + 1 ] ]
  /\ ev' = [ NoEv EXCEPT !.kind = "tick" ]
  /\ UNCHANGED << transport, peer, buffer, session, protocols, client, unsent,
                  stream, dispatched, run >>

\* ------------------------------------------------------ UDPDataProtocol

\* one call into a collaborator; hr: the collaborator raises
Call(handler, arg, hr) ==
  [ calls |-> << [ handler |-> handler, arg |-> arg ] >>,
    exc |-> IF hr THEN "handler" ELSE "none" ]

NoCall(exc) == [ calls |-> << >>, exc |-> exc ]

\* a decoded payload handed to its handler, or the decoder's exception
Forward(d, handler, hr) ==
  IF d.exc # "none" THEN NoCall(d.exc) ELSE Call(handler, d.msg, hr)

\* the inner match with a case for every member of SystemActionId
SystemActionRouteEvery(action, hr) ==
  CASE action.action_id = LOCK_SCREEN -> Call("system.lock_screen", NoMsg, hr)
    [] action.action_id = POWER_DIALOG -> Call("system.show_power_dialog", NoMsg, hr)
    [] action.action_id = SLEEP -> Call("system.sleep", NoMsg, hr)
    [] action.action_id = SHUTDOWN -> Call("system.shutdown", NoMsg, hr)
    [] action.action_id = RESTART -> Call("system.restart", NoMsg, hr)
    [] OTHER -> NoCall("none")

\* the inner match of _dispatch on action.action_id
SystemActionRoute(action, hr) ==
  CASE action.action_id = LOCK_SCREEN -> Call("system.lock_screen", NoMsg, hr)
    [] action.action_id = POWER_DIALOG -> Call("system.show_power_dialog", NoMsg, hr)
    [] action.action_id = SLEEP -> Call("system.sleep", NoMsg, hr)
    [] OTHER -> NoCall("none")

\* _dispatch with the scroll case handing its message to handle_move
UdpDispatchScrollAsMove(msg_type, payload, hr) ==
  CASE msg_type = MOUSE_MOVE -> Forward(MouseMoveDecode(payload), "mouse.handle_move", hr)
    [] msg_type = MOUSE_CLICK -> Forward(MouseClickDecode(payload), "mouse.handle_click", hr)
    [] msg_type = MOUSE_SCROLL -> Forward(MouseScrollDecode(payload), "mouse.handle_move", hr)
    [] msg_type = MOUSE_DRAG -> Forward(MouseDragDecode(payload), "mouse.handle_drag", hr)
    [] msg_type = KEY_EVENT ->
         Forward(KeyEventDecode(payload), "keyboard.handle_key_event", hr)
    [] msg_type = SYSTEM_ACTION ->
         LET d == SystemActionDecode(payload)
         IN  IF d.exc # "none" THEN NoCall(d.exc) ELSE SystemActionRoute(d.msg, hr)
    [] OTHER -> NoCall("none")

\* _dispatch
UdpDispatch(msg_type, payload, hr) ==
  CASE msg_type = MOUSE_MOVE -> Forward(MouseMoveDecode(payload), "mouse.handle_move", hr)
    [] msg_type = MOUSE_CLICK -> Forward(MouseClickDecode(payload), "mouse.handle_click", hr)
    [] msg_type = MOUSE_SCROLL -> Forward(MouseScrollDecode(payload), "mouse.handle_scroll", hr)
    [] msg_type = MOUSE_DRAG -> Forward(MouseDragDecode(payload), "mouse.handle_drag", hr)
    [] msg_type = KEY_EVENT ->
         Forward(KeyEventDecode(payload), "keyboard.handle_key_event", hr)
    [] msg_type = SYSTEM_ACTION ->
         LET d == SystemActionDecode(payload)
         IN  IF d.exc # "none" THEN NoCall(d.exc) ELSE SystemActionRoute(d.msg, hr)
    [] OTHER -> NoCall("none")

\* "except (ValueError, KeyError)" around Header.decode
HeaderGuardCatches(exc) == exc \in {"ValueError", "KeyError"}

\* the guard around _dispatch narrowed to the header's exceptions
DispatchGuardNarrow(exc) == exc \in {"ValueError", "KeyError"}

\* "except Exception" around _dispatch
DispatchGuardCatches(exc) == exc \in {"ValueError", "KeyError", "struct.error", "IndexError", "handler"}

Dropped(why) ==
  [ calls |-> << >>, caught |-> "none", escaped |-> FALSE, why |-> why ]

\* the sender check left out
SenderUnchecked(addr, cl, h) == TRUE

\* the sender check: the datagram's IP against the registered session's
SenderMatches(addr, cl, h) == addr[1] = h[cl].address[1]

\* datagram_received without the "client is None" return: the sender check
\* is made only when there is a session to compare with
DatagramResultNoClientCheck(data, addr, hr, cl, h) ==
  IF Len(data) < HEADER_SIZE THEN Dropped("runt")
  ELSE IF cl # None /\ ~SenderMatches(addr, cl, h) THEN Dropped("sender")
  ELSE
    LET header == HeaderDecode(Slice(data, 0, HEADER_SIZE)) IN
    IF header.exc # "none"
      THEN [ calls |-> << >>,
             caught |-> IF HeaderGuardCatches(header.exc) THEN header.exc ELSE "none",
             escaped |-> ~HeaderGuardCatches(header.exc), why |-> "header" ]
    ELSE
      LET payload == Slice(data, HEADER_SIZE, HEADER_SIZE + header.payload_length)
          r == UdpDispatch(header.msg_type, payload, hr)
      IN  [ calls |-> r.calls,
            caught |-> IF r.exc # "none" /\ DispatchGuardCatches(r.exc) THEN r.exc ELSE "none",
            escaped |-> r.exc # "none" /\ ~DispatchGuardCatches(r.exc),
            why |-> "dispatched" ]

\* datagram_received that takes all the bytes behind the header for the
\* payload, whatever length the header declares
DatagramResultAllBytes(data, addr, hr, cl, h) ==
  IF Len(data) < HEADER_SIZE THEN Dropped("runt")
  ELSE IF cl = None THEN Dropped("no client")
  ELSE IF ~SenderMatches(addr, cl, h) THEN Dropped("sender")
  ELSE
    LET header == HeaderDecode(Slice(data, 0, HEADER_SIZE)) IN
    IF header.exc # "none"
      THEN [ calls |-> << >>,
             caught |-> IF HeaderGuardCatches(header.exc) THEN header.exc ELSE "none",
             escaped |-> ~HeaderGuardCatches(header.exc), why |-> "header" ]
    ELSE
      LET payload == Slice(data, HEADER_SIZE, Len(data))
          r == UdpDispatch(header.msg_type, payload, hr)
      IN  [ calls |-> r.calls,
            caught |-> IF r.exc # "none" /\ DispatchGuardCatches(r.exc) THEN r.exc ELSE "none",
            escaped |-> r.exc # "none" /\ ~DispatchGuardCatches(r.exc),
            why |-> "dispatched" ]

\* datagram_received, as the calls it made and the exception it caught or
\* let escape
DatagramResult(data, addr, hr, cl, h) ==
  IF Len(data) < HEADER_SIZE THEN Dropped("runt")
  ELSE IF cl = None THEN Dropped("no client")
  ELSE IF ~SenderMatches(addr, cl, h) THEN Dropped("sender")
  ELSE
    LET header == HeaderDecode(Slice(data, 0, HEADER_SIZE)) IN
    IF header.exc # "none"
      THEN [ calls |-> << >>,
             caught |-> IF HeaderGuardCatches(header.exc) THEN header.exc ELSE "none",
             escaped |-> ~HeaderGuardCatches(header.exc), why |-> "header" ]
    ELSE
      LET payload == Slice(data, HEADER_SIZE, HEADER_SIZE + header.payload_length)
          r == UdpDispatch(header.msg_type, payload, hr)
      IN  [ calls |-> r.calls,
            caught |-> IF r.exc # "none" /\ DispatchGuardCatches(r.exc) THEN r.exc ELSE "none",
            escaped |-> r.exc # "none" /\ ~DispatchGuardCatches(r.exc),
            why |-> "dispatched" ]

\* the last step was a datagram that was a runt, had a corrupt header, or
\* raised while it was decoded or handled
LastWasBadDatagram ==
  /\ ev.kind = "datagram_received"
  /\ ev.by \in {"runt", "header"} \/ ev.caught # "none" \/ ev.escaped

\* datagram_received that empties the slot when the sender check fails
DatagramReceivedEvicts(data, addr, hr) ==
  /\ run.udp_transport = "open"
  /\ LET r == DatagramResult(data, addr, hr, client, heap)
     IN  /\ ev' = [ NoEv EXCEPT !.kind = "datagram_received", !.data = data,
                                !.addr = addr, !.calls = r.calls, !.caught = r.caught,
                                !.escaped = r.escaped, !.by = r.why,
                                !.after_bad = LastWasBadDatagram ]
         /\ client' = IF r.why = "sender" THEN None ELSE client
  /\ UNCHANGED << transport, peer, buffer, session, protocols, heap,
                  sinceSweep, unsent, stream, dispatched, run >>

\* datagram_received that takes a pong datagram from the client's IP for a
\* liveness response
DatagramReceivedPong(data, addr, hr) ==
  /\ run.udp_transport = "open"
  /\ LET r == DatagramResult(data, addr, hr, client, heap)
     IN  /\ ev' = [ NoEv EXCEPT !.kind = "datagram_received", !.data = data,
                                !.addr = addr, !.calls = r.calls, !.caught = r.caught,
                                !.escaped = r.escaped, !.by = r.why,
                                !.after_bad = LastWasBadDatagram ]
         /\ heap' = IF r.why = "dispatched" /\ data = EncodePong
                      THEN [ heap EXCEPT ![client].age = 0 ] ELSE heap
  /\ UNCHANGED << transport, peer, buffer, session, protocols, client,
                  sinceSweep, unsent, stream, dispatched, run >>

DatagramReceived(data, addr, hr) ==
  /\ run.udp_transport = "open"
  /\ LET r == DatagramResult(data, addr, hr, client, heap)
     IN  ev' = [ NoEv EXCEPT !.kind = "datagram_received", !.data = data,
                             !.addr = addr, !.calls = r.calls, !.caught = r.caught,
                             !.escaped = r.escaped, !.by = r.why,
                             !.after_bad = LastWasBadDatagram ]
  /\ UNCHANGED << transport, peer, buffer, session, protocols, client, heap,
                  sinceSweep, unsent, stream, dispatched, run >>

\* ------------------------------------------------------------ the peers

\* the name the client on connection c declares: "A", "B", ...
ClientName(c) == << 64 + c >>

Hello(c, version) == HandshakeReqEncode(version, 0, ClientName(c))

\* a header whose type byte is in no enumeration
BadHeader == << PROTOCOL_VERSION, 153, 0, 0 >>

\* what a client writes in one go on connection c: one message, or a
\* disconnect with a handshake right behind it
TcpBursts ==
  [ c \in Conns |->
      { Hello(c, PROTOCOL_VERSION), Hello(c, PROTOCOL_VERSION + 1),
        EncodePing, EncodePong, EncodeDisconnect, BadHeader,
        EncodeDisconnect \o Hello(c, PROTOCOL_VERSION),
        EncodeDisconnect \o Hello(c, PROTOCOL_VERSION + 1) } ]

\* where the network may split a burst
SplitAt == {6}

\* the message types of the complete frames at the head of b
RECURSIVE FrameTypes(_)
FrameTypes(b) ==
  LET header == HeaderDecode(Slice(b, 0, HEADER_SIZE)) IN
  IF header.exc # "none" \/ Len(b) < HEADER_SIZE + header.payload_length THEN {}
  ELSE {header.msg_type}
         \cup FrameTypes(Slice(b, HEADER_SIZE + header.payload_length, Len(b)))

\* what the collaborators and os.urandom answer during one data_received;
\* only the answers the buffered messages ask for are varied
Levels == {0, 29, 100}
VolumeLevels == {50, 57}

\* SystemActions.launch_app: the application was started; the launch failed
\* and launch_app returned all the same (Popen raised an exception that
\* launch_app catches and logs, or "open" was started and could not find the
\* application); Popen raised another exception, which leaves launch_app
LaunchOutcomes == {"started", "failed", "raises"}

Envs(b) ==
  LET t == FrameTypes(b) IN
  [ rnd : IF HANDSHAKE_REQ \in t THEN SessionIds ELSE {0},
    brightness : IF GET_SYSTEM_STATE \in t THEN Levels ELSE {0},
    volume : IF GET_SYSTEM_STATE \in t THEN VolumeLevels ELSE {0},
    launch : IF LAUNCH_APP \in t THEN LaunchOutcomes ELSE {"started"} ]

\* The peer of connection c writes a burst and the server is handed its
\* first k bytes, or the server is handed the bytes still under way.
Receive(c, bursts, cuts) ==
  \E b \in (IF unsent[c] = << >> THEN bursts ELSE {unsent[c]}) :
    \E k \in {Len(b)} \cup { j \in cuts : j < Len(b) /\ unsent[c] = << >> } :
      \E env \in Envs(buffer[c] \o Slice(b, 0, k)) :
        /\ DataReceived(c, Slice(b, 0, k), env)
        /\ unsent' = [ unsent EXCEPT ![c] = Slice(b, k, Len(b)) ]
        /\ UNCHANGED << stream, dispatched >>

\* datagrams the main specification hands the dispatcher
MainDatagrams == { KeyEventEncode(0, 0, 4, 0) }

Datagram ==
  \E data \in MainDatagrams, ip \in ClientIPs :
    DatagramReceived(data, << ip, 40000 >>, FALSE)

Accept == \E c \in Conns : MakeProtocol(c)

Lose == \E c \in Conns : ConnectionLost(c)

Deliver == \E c \in Conns : Receive(c, TcpBursts[c], SplitAt)

Next == Accept \/ Deliver \/ Lose \/ KeepaliveSweep \/ Tick \/ Datagram

Spec == Init /\ [][Next]_vars

\* The clock advances and the keepalive task, an endless loop around
\* asyncio.sleep, is run again whenever its sleep is over.
FairSpec == Spec /\ WF_vars(Tick) /\ WF_vars(KeepaliveSweep)

\* ---- the data plane on its own: connections come, hand in one
\* handshake and go; every kind of datagram arrives from every address

\* one well-formed datagram per route of _dispatch, with the call it is to
\* cause: the handler and the message it is given
Routes ==
  { [ data |-> MouseMoveEncode(7, 3, -2), handler |-> "mouse.handle_move",
      arg |-> [ kind |-> "MouseMove", timestamp |-> 7, dx |-> 3, dy |-> -2 ] ],
    [ data |-> MouseClickEncode(7, 1, 0), handler |-> "mouse.handle_click",
      arg |-> [ kind |-> "MouseClick", timestamp |-> 7, button |-> 1, action |-> 0 ] ],
    [ data |-> MouseScrollEncode(7, 0, -1), handler |-> "mouse.handle_scroll",
      arg |-> [ kind |-> "MouseScroll", timestamp |-> 7, dx |-> 0, dy |-> -1 ] ],
    [ data |-> MouseDragEncode(7, 0, -4, 5), handler |-> "mouse.handle_drag",
      arg |-> [ kind |-> "MouseDrag", timestamp |-> 7, button |-> 0, dx |-> -4,
                dy |-> 5 ] ],
    [ data |-> KeyEventEncode(7, 0, 4, 2), handler |-> "keyboard.handle_key_event",
      arg |-> [ kind |-> "KeyEvent", timestamp |-> 7, action |-> 0, keycode |-> 4,
                modifiers |-> 2 ] ],
    [ data |-> SystemActionEncode(7, LOCK_SCREEN), handler |-> "system.lock_screen",
      arg |-> NoMsg ],
    [ data |-> SystemActionEncode(7, POWER_DIALOG),
      handler |-> "system.show_power_dialog", arg |-> NoMsg ],
    [ data |-> SystemActionEncode(7, SLEEP), handler |-> "system.sleep",
      arg |-> NoMsg ] }

\* a datagram shorter than a header
Runt == << PROTOCOL_VERSION, MOUSE_MOVE >>

\* a mouse-move header that announces eight bytes, three of them there
Truncated == HeaderEncode(PROTOCOL_VERSION, MOUSE_MOVE, MOUSE_MOVE_SIZE) \o << 0, 0, 0 >>

\* a click with a button outside MouseButton
InvalidEnum == MouseClickEncode(7, 9, 0)

BadDatagrams == { Runt, Truncated, InvalidEnum, BadHeader }

\* well-formed, with no route: a system action _dispatch has no case for,
\* and a control-plane type
Unrouted == { SystemActionEncode(7, SHUTDOWN), EncodePing }

DataDatagrams == { r.data : r \in Routes } \cup BadDatagrams \cup Unrouted

\* source addresses: the clients' IPs and one nobody connected from
SourceIPs == ClientIPs \cup {3}
SourcePorts == {40000, 40001}

DataDatagram ==
  \E data \in DataDatagrams, ip \in SourceIPs, port \in SourcePorts, hr \in BOOLEAN :
    DatagramReceived(data, << ip, port >>, hr)

DataBursts ==
  [ c \in Conns |-> { Hello(c, PROTOCOL_VERSION), EncodeDisconnect } ]

DataDeliver == \E c \in Conns : Receive(c, DataBursts[c], {})

DataNext == Accept \/ DataDeliver \/ Lose \/ DataDatagram

DataSpec == Init /\ [][DataNext]_vars

\* ---- the commands on their own: connections come, hand in whole
\* messages of every kind and go; no time passes

\* "x"
AppName == << 120 >>

\* a launch-app message whose payload ends inside the timestamp
ShortLaunch == Framed(LAUNCH_APP, << 0, 0 >>)

\* a launch-app message that declares a name of three bytes and ends there
NamelessLaunch == Framed(LAUNCH_APP, U32Pack(7) \o << 3 >>)

\* a header that does not decode, with a ping behind it
FatalThenPing == BadHeader \o EncodePing

CmdBursts ==
  [ c \in Conns |->
      { Hello(c, PROTOCOL_VERSION), EncodePing, EncodePong, EncodeDisconnect,
        Framed(GET_SYSTEM_STATE, << >>),
        LaunchAppEncode(7, AppName), LaunchAppEncode(7, << >>), ShortLaunch,
        NamelessLaunch,
        MouseMoveEncode(7, 3, -2),
        HandshakeAckEncode(PROTOCOL_VERSION, 0, udp_port, keepalive_interval),
        FatalThenPing, EncodePing \o FatalThenPing } ]

CmdDeliver == \E c \in Conns : Receive(c, CmdBursts[c], {})

CommandNext == Accept \/ CmdDeliver \/ Lose

CommandSpec == Init /\ [][CommandNext]_vars

\* ---- the framer on its own: the peer of connection 1 writes a stream of
\* whole messages and the network hands it over in chunks of any cut

\* longest stream
MaxMsgs == 3

\* the messages a stream is made of: type and payload
Msg(msg_type, payload) == [ msg_type |-> msg_type, payload |-> payload ]

StreamMsgs ==
  { Msg(HANDSHAKE_REQ, Slice(Hello(1, PROTOCOL_VERSION), HEADER_SIZE, 40)),
    Msg(PING, << >>), Msg(PONG, << >>), Msg(DISCONNECT, << >>),
    Msg(GET_SYSTEM_STATE, << >>),
    Msg(MOUSE_MOVE, << 0, 0, 0, 7, 0, 3, 255, 254 >>) }

Streams == UNION { [ 1..n -> StreamMsgs ] : n \in 1..MaxMsgs }

\* the bytes of the first n messages of s, as the peer writes them
RECURSIVE Wire(_, _)
Wire(s, n) ==
  IF n = 0 THEN << >>
  ELSE Wire(s, n - 1)
         \o << PROTOCOL_VERSION, s[n].msg_type, 0, Len(s[n].payload) >> \o s[n].payload

\* chunk lengths the network may cut off the head of what is under way
ChunkSizes == {1, 3, 4, 7, 40}

\* connection 1 is accepted, its peer has written the whole of one of the
\* streams in S
StreamInit(S) ==
  /\ transport = [ c \in Conns |-> IF c = 1 THEN "open" ELSE "none" ]
  /\ peer = [ c \in Conns |-> IF c = 1 THEN << ClientIP(1), TcpPort(1) >> ELSE << 0, 0 >> ]
  /\ buffer = [ c \in Conns |-> << >> ]
  /\ session = [ c \in Conns |-> None ]
  /\ protocols = << 1 >>
  /\ client = None
  /\ heap = [ r \in Refs |-> NullSession ]
  /\ sinceSweep = 0
  /\ stream \in S
  /\ unsent = [ c \in Conns |-> IF c = 1 THEN Wire(stream, Len(stream)) ELSE << >> ]
  /\ ev = NoEv
  /\ dispatched = << >>
  /\ run = Serving

FramingInit == StreamInit(Streams)

\* the server is handed the next k bytes; what _handle_message was given
\* during the call is appended to dispatched
FrameDeliver ==
  /\ unsent[1] # << >>
  /\ \E k \in { j \in ChunkSizes : j < Len(unsent[1]) } \cup {Len(unsent[1])} :
       \E env \in Envs(buffer[1] \o Slice(unsent[1], 0, k)) :
         /\ DataReceived(1, Slice(unsent[1], 0, k), env)
         /\ unsent' = [ unsent EXCEPT ![1] = Slice(unsent[1], k, Len(unsent[1])) ]
         /\ dispatched' = dispatched \o
              [ i \in 1..Len(ev'.log) |-> Msg(ev'.log[i].msg_type, ev'.log[i].payload) ]
  /\ UNCHANGED stream

FramingNext == FrameDeliver

FramingSpec == FramingInit /\ [][FramingNext]_vars

\* ---- one connection that sends handshake after handshake

HandshakeMsgs ==
  { Msg(HANDSHAKE_REQ, Slice(Hello(1, PROTOCOL_VERSION), HEADER_SIZE, 40)),
    Msg(HANDSHAKE_REQ, Slice(Hello(1, PROTOCOL_VERSION + 1), HEADER_SIZE, 40)),
    Msg(PING, << >>) }

HandshakeStreams == UNION { [ 1..n -> HandshakeMsgs ] : n \in 1..MaxMsgs }

RepeatInit == StreamInit(HandshakeStreams)

RepeatNext == FrameDeliver

RepeatSpec == RepeatInit /\ [][RepeatNext]_vars

\* ---- shutdown: connections come, handshake, answer pings and go, time
\* passes and the keepalive task sweeps, and at some point the process is
\* sent SIGINT or SIGTERM

\* _signal_handler: stop_event.set()
SignalHandler ==
  /\ run.pc = "serving"
  /\ run' = [ run EXCEPT !.pc = "signalled" ]
  /\ ev' = [ NoEv EXCEPT !.kind = "signal" ]
  /\ UNCHANGED << transport, peer, buffer, session, protocols, client, heap,
                  sinceSweep, unsent, stream, dispatched >>

\* Server.wait_closed(): up to Python 3.11 it returns at once after
\* close(); from 3.12 on it returns when no connection is attached any more
WaitClosedBuilds == {"at once", "for connections"}

\* _run from the return of stop_event.wait() to the await of wait_closed:
\* udp_server.stop() closes the datagram transport, tcp_server.stop()
\* cancels the keepalive task and closes the listener.  No await in between
\* yields to the event loop.
StopServers ==
  /\ run.pc = "signalled"
  /\ \E b \in WaitClosedBuilds :
       run' = [ run EXCEPT !.pc = "wait_closed",
                           !.udp_transport = "closed",
                           !.keepalive_task = "cancelled",
                           !.server = "closed",
                           !.did = << "udp_transport.close", "keepalive_task.cancel",
                                      "server.close", "wait_closed " \o b >> ]
  /\ ev' = [ NoEv EXCEPT !.kind = "stop" ]
  /\ UNCHANGED << transport, peer, buffer, session, protocols, client, heap,
                  sinceSweep, unsent, stream, dispatched >>

\* a connection is attached to the listener until its connection_lost ran
Attached(c) == transport[c] \in {"open", "closing"}

\* wait_closed returns, tcp_server.stop() and _run return
WaitClosed ==
  /\ run.pc = "wait_closed"
  /\ run.did[4] = "wait_closed at once" \/ \A c \in Conns : ~Attached(c)
  /\ run' = [ run EXCEPT !.pc = "stopped" ]
  /\ ev' = [ NoEv EXCEPT !.kind = "stopped" ]
  /\ UNCHANGED << transport, peer, buffer, session, protocols, client, heap,
                  sinceSweep, unsent, stream, dispatched >>

ShutBursts ==
  [ c \in Conns |-> { Hello(c, PROTOCOL_VERSION), EncodePong, EncodeDisconnect } ]

ShutDeliver == \E c \in Conns : Receive(c, ShutBursts[c], {})

\* the event loop runs connection_lost for a transport that was closed
CloseCompletes == \E c \in Conns : transport[c] = "closing" /\ ConnectionLost(c)

ShutdownNext ==
  \/ Accept \/ ShutDeliver \/ Lose \/ KeepaliveSweep \/ Tick
  \/ SignalHandler \/ StopServers \/ WaitClosed

\* _run is resumed once stop_event is set, a coroutine whose await is over
\* is resumed, and a closed transport gets its connection_lost; a peer may
\* keep its connection open for ever
ShutdownSpec ==
  /\ Init /\ [][ShutdownNext]_vars
  /\ WF_vars(StopServers) /\ WF_vars(WaitClosed) /\ WF_vars(CloseCompletes)

\* ---- several connections at once: each hands in well-formed, malformed
\* and unexpected messages while time passes and the keepalive task sweeps

IsoBursts ==
  [ c \in Conns |->
      { Hello(c, PROTOCOL_VERSION), Hello(c, PROTOCOL_VERSION + 1), EncodePong,
        EncodeDisconnect, BadHeader, ShortLaunch, MouseMoveEncode(7, 3, -2) } ]

IsoDeliver == \E c \in Conns : Receive(c, IsoBursts[c], {})

IsolationNext == Accept \/ IsoDeliver \/ Lose \/ KeepaliveSweep \/ Tick

IsolationSpec == Init /\ [][IsolationNext]_vars

\* ---- the codec on its own: a message object is encoded and the bytes
\* are decoded, or bytes that no encoder made are decoded

\* a string of n times the character ch
Text(n, ch) == [ i \in 1..n |-> ch ]

\* field values: the ends of each field's range and values in between
\* (timestamps up to 2^31 - 1)
Timestamps == {0, 7, 2147483647}
Deltas == {-32768, -1, 0, 32767}
Words == {0, 1, 65535}

\* lengths of client names, application names and error texts: none, one,
\* the most that is kept, and more than that
NameLengths == {0, 1, 32, 33, 100}
AppNameLengths == {0, 1, 128, 129, 300}
ErrorLengths == {0, 29, 256, 257, 600}

\* brightness and volume in hundredths: within 0.0 .. 1.0, and beyond what
\* the 16-bit field holds
Brightnesses == {0, 29, 50, 100, 65535, 65536, 65537, 70000}
Volumes == {0, 57, 100}

CodecMessages ==
  [ kind : {"HandshakeReq"}, client_version : Words, flags : {0, 65535},
    client_name : { Text(n, 65) : n \in NameLengths } ]
  \cup [ kind : {"HandshakeAck"}, server_version : Words, flags : {0},
         udp_port : {DEFAULT_UDP_PORT, 65535}, keepalive_interval : {0, 5, 65535} ]
  \cup [ kind : {"HandshakeReject"}, server_version : Words, reason_code : {1, 2, 65535} ]
  \cup [ kind : {"Ping", "Pong", "Disconnect"} ]
  \cup [ kind : {"MouseMove", "MouseScroll"}, timestamp : Timestamps, dx : Deltas,
         dy : Deltas ]
  \cup [ kind : {"MouseClick"}, timestamp : Timestamps, button : MouseButton,
         action : ClickAction ]
  \cup [ kind : {"MouseDrag"}, timestamp : {7}, button : MouseButton, dx : Deltas,
         dy : Deltas ]
  \cup [ kind : {"KeyEvent"}, timestamp : Timestamps, action : KeyAction,
         keycode : {0, 4, 65535}, modifiers : {0, 255} ]
  \cup [ kind : {"SystemAction"}, timestamp : Timestamps, action_id : SystemActionId ]
  \cup [ kind : {"LaunchApp"}, timestamp : Timestamps,
         app_name : { Text(n, 120) : n \in AppNameLengths } ]
  \cup [ kind : {"SystemStateResponse"}, brightness : Brightnesses, volume : Volumes,
         is_muted : BOOLEAN, is_locked : BOOLEAN ]
  \cup [ kind : {"Ack", "CommandError"}, app_id : {0, 255} ]
  \cup [ kind : {"Error"}, message : { Text(n, 101) : n \in ErrorLengths } ]

\* w without its last byte
DropLast(w) == SubSeq(w, 1, Len(w) - 1)

\* one message of every type that has a payload, each cut short by a byte:
\* with the header as it was, and with a header that declares what is there
CutShort ==
  LET whole == { EncodeMessage(m) :
                   m \in { c \in CodecMessages :
                             /\ c.kind \notin {"Ping", "Pong", "Disconnect", "Error"}
                             /\ "timestamp" \in DOMAIN c => c.timestamp = 7
                             /\ "dx" \in DOMAIN c => c.dx = 0 /\ c.dy = 0
                             /\ "client_name" \in DOMAIN c => Len(c.client_name) = 1
                             /\ "app_name" \in DOMAIN c => Len(c.app_name) = 1
                             /\ "brightness" \in DOMAIN c => c.brightness = 50 } }
  IN  { DropLast(w) : w \in whole }
        \cup { Framed(w[2], Slice(w, HEADER_SIZE, Len(w) - 1)) : w \in whole }

\* handshake requests and launch-app messages with less than they need
ShortPayloads ==
  { Framed(HANDSHAKE_REQ, Slice(Hello(1, PROTOCOL_VERSION), HEADER_SIZE, HEADER_SIZE + n)) :
      n \in {0, 3, 4, 10, 35} }
  \cup { Framed(LAUNCH_APP, Slice(U32Pack(7) \o << 5, 104, 101 >>, 0, n)) :
           n \in {0, 3, 4, 5, 7} }

\* type bytes that are in no enumeration
UnknownTypes == { << PROTOCOL_VERSION, t, 0, 0 >> : t \in {0, 4, 153, 254} }

\* enumeration fields outside their range
OutOfRange ==
  { MouseClickEncode(7, 3, 0), MouseClickEncode(7, 255, 0), MouseClickEncode(7, 0, 2),
    MouseDragEncode(7, 3, 0, 0), KeyEventEncode(7, 2, 4, 0),
    SystemActionEncode(7, 0), SystemActionEncode(7, 6), SystemActionEncode(7, 255) }

CodecWires == CutShort \cup ShortPayloads \cup UnknownTypes \cup OutOfRange

NoResult == [ exc |-> "none", header |-> HeaderDecode(<< >>), msg |-> NoMsg ]

CodecInit ==
  /\ transport = [ c \in Conns |-> "none" ]
  /\ peer = [ c \in Conns |-> << 0, 0 >> ]
  /\ buffer = [ c \in Conns |-> << >> ]
  /\ session = [ c \in Conns |-> None ]
  /\ protocols = << >>
  /\ client = None
  /\ heap = [ r \in Refs |-> NullSession ]
  /\ sinceSweep = 0
  /\ unsent = [ c \in Conns |-> << >> ]
  /\ stream = << >>
  /\ dispatched = << >>
  /\ run = Serving
  /\ \/ \E m \in CodecMessages :
          ev = [ kind |-> "message", from |-> "", msg |-> m, wire |-> << >>,
                 result |-> NoResult ]
     \/ \E w \in CodecWires :
          ev = [ kind |-> "bytes", from |-> "", msg |-> NoMsg, wire |-> w,
                 result |-> NoResult ]

\* m.encode()
Encode ==
  /\ ev.kind = "message"
  /\ ev' = [ ev EXCEPT !.kind = "encoded", !.wire = EncodeMessage(ev.msg) ]
  /\ UNCHANGED << transport, peer, buffer, session, protocols, client, heap,
                  sinceSweep, unsent, stream, dispatched, run >>

\* decode_message(data)
Decode ==
  /\ ev.kind \in {"encoded", "bytes"}
  /\ ev' = [ ev EXCEPT !.kind = "decoded", !.from = ev.kind,
                       !.result = DecodeMessage(ev.wire) ]
  /\ UNCHANGED << transport, peer, buffer, session, protocols, client, heap,
                  sinceSweep, unsent, stream, dispatched, run >>

CodecNext == Encode \/ Decode

CodecSpec == CodecInit /\ [][CodecNext]_vars

\* ---- the datagram channel, message by message: clients handshake, a
\* second may pass, and datagrams arrive from every address

\* the action-id bytes tried: every member of SystemActionId, and 0, 6 and
\* 255, which are none
ActionIds == SystemActionId \cup {0, 6, 255}

ActionDatagrams == { SystemActionEncode(7, a) : a \in ActionIds }

\* one message of every type the stream channel carries
ControlDatagrams ==
  { Hello(1, PROTOCOL_VERSION), Hello(2, PROTOCOL_VERSION),
    HandshakeAckEncode(PROTOCOL_VERSION, 0, udp_port, keepalive_interval),
    HandshakeRejectEncode(PROTOCOL_VERSION, 2),
    EncodePing, EncodePong, EncodeDisconnect,
    LaunchAppEncode(7, AppName), Framed(GET_SYSTEM_STATE, << >>),
    SystemStateResponseEncode(50, 50, FALSE, FALSE),
    AckEncode(0), CommandErrorEncode(0), EncodeError(UnexpectedText(PONG)) }

\* a header that declares n payload bytes, with the bytes rest behind it
Declare(msg_type, n, rest) == HeaderEncode(PROTOCOL_VERSION, msg_type, n) \o rest

\* input messages whose declared length is, or is not, the number of bytes
\* behind the header, and whose enumeration fields are, or are not, in range
LengthDatagrams ==
  LET move == U32Pack(7) \o I16Pack(3) \o I16Pack(-2)
      click == U32Pack(7) \o << 1, 0 >>
      drag == U32Pack(7) \o << 0 >> \o I16Pack(-4) \o I16Pack(5)
      key == U32Pack(7) \o << 0 >> \o U16Pack(4) \o << 2 >>
      badkey == U32Pack(7) \o << 9 >> \o U16Pack(4) \o << 2 >>
      lock == U32Pack(7) \o << LOCK_SCREEN >>
      more == << 9, 9, 9, 9 >>
  IN  { Declare(MOUSE_MOVE, 8, move), Declare(MOUSE_MOVE, 8, Slice(move, 0, 3)),
        Declare(MOUSE_MOVE, 3, move), Declare(MOUSE_MOVE, 7, move),
        Declare(MOUSE_MOVE, 0, move), Declare(MOUSE_MOVE, 12, move),
        Declare(MOUSE_MOVE, 8, move \o more), Declare(MOUSE_MOVE, 12, move \o more),
        Declare(MOUSE_SCROLL, 8, move), Declare(MOUSE_SCROLL, 4, move),
        Declare(MOUSE_CLICK, 6, click), Declare(MOUSE_CLICK, 5, click),
        Declare(MOUSE_CLICK, 6, click \o more), MouseClickEncode(7, 9, 0),
        MouseClickEncode(7, 1, 2),
        Declare(MOUSE_DRAG, 9, drag), Declare(MOUSE_DRAG, 8, drag),
        MouseDragEncode(7, 3, -4, 5),
        Declare(KEY_EVENT, 8, key), Declare(KEY_EVENT, 7, key),
        Declare(KEY_EVENT, 65535, key), Declare(KEY_EVENT, 65535, badkey \o more),
        Declare(SYSTEM_ACTION, 4, lock), Declare(SYSTEM_ACTION, 9, lock \o more) }

ChannelDatagrams == ActionDatagrams \cup ControlDatagrams \cup LengthDatagrams

ChannelDatagram ==
  \E data \in ChannelDatagrams, ip \in SourceIPs, hr \in BOOLEAN :
    DatagramReceived(data, << ip, 40000 >>, hr)

ChannelNext == Accept \/ DataDeliver \/ Lose \/ Tick \/ ChannelDatagram

ChannelSpec == Init /\ [][ChannelNext]_vars

\* ---- declared payload lengths around the limit: clients handshake and
\* write pings whose headers declare 0, 508 and 509 bytes of payload, which
\* the server is handed whole, or the header first and the rest later

\* the largest payload that keeps a message within MAX_PAYLOAD_SIZE
MaxDeclared == MAX_PAYLOAD_SIZE - HEADER_SIZE

\* n payload bytes, all zero
Filler(n) == [ i \in 1..n |-> 0 ]

OversizeBursts ==
  [ c \in Conns |->
      { Hello(c, PROTOCOL_VERSION), EncodePing,
        Framed(PING, Filler(MaxDeclared)), Framed(PING, Filler(MaxDeclared + 1)) } ]

OversizeDeliver == \E c \in Conns : Receive(c, OversizeBursts[c], {HEADER_SIZE})

OversizeNext == Accept \/ OversizeDeliver \/ Lose

OversizeSpec == Init /\ [][OversizeNext]_vars

\* ---- punctual clients: every client answers a ping with a pong that
\* arrives before the next sweep is due; no client sends a disconnect or a
\* header that does not decode, and no connection goes away

\* a sweep, and each peer that is sent a ping writes a pong
PunctualSweep ==
  /\ Sweep
  /\ unsent' = [ c \in Conns |->
                   IF \E i \in DOMAIN ev'.pinged : ev'.pinged[i] = c
                     THEN unsent[c] \o EncodePong ELSE unsent[c] ]

\* a second passes; the second that makes the next sweep due passes only
\* when every pong under way has arrived, and the connection_lost of a
\* transport the server closed, scheduled with call_soon, runs before any
\* second passes
PunctualTick ==
  /\ sinceSweep + 1 = keepalive_interval => \A c \in Conns : unsent[c] = << >>
  /\ \A c \in Conns : transport[c] # "closing"
  /\ Tick

PunctualBursts ==
  [ c \in Conns |->
      { Hello(c, PROTOCOL_VERSION), Hello(c, PROTOCOL_VERSION + 1), EncodePing,
        Framed(GET_SYSTEM_STATE, << >>), ShortLaunch } ]

PunctualDeliver == \E c \in Conns : Receive(c, PunctualBursts[c], {})

PunctualNext ==
  Accept \/ PunctualDeliver \/ CloseCompletes \/ PunctualSweep \/ PunctualTick

PunctualSpec == Init /\ [][PunctualNext]_vars

\* ------------------------------------------------------------ claims

\* the client_version field of a handshake request payload
RequestVersion(payload) == payload[1] * 256 + payload[2]

\* log entry e is a handshake request that declares a version
IsRequest(e) == e.msg_type = HANDSHAKE_REQ /\ Len(e.payload) >= 4

\* handshake-reject as it goes over the wire: header, server version, reason
RejectBytes(reason) == << 1, 3, 0, 4, 0, 1, 0, reason >>

\* handshake-ack over the wire: header, version 1, flags 0, UDP port 9801,
\* the configured keepalive interval
AckBytes == << 1, 2, 0, 8, 0, 1, 0, 0, 38, 73, 0, keepalive_interval >>

\* C1: whenever a session is registered, a handshake request with the
\* server's version, on any connection, is answered with reject(reason 2),
\* creates no session and leaves the registered session as it was.
C1_BusyHandshakeRejected ==
  \A i \in DOMAIN ev.log :
    LET e == ev.log[i] IN
    (IsRequest(e) /\ RequestVersion(e.payload) = PROTOCOL_VERSION /\ e.pre.client # None)
      => /\ e.out = << RejectBytes(2) >>
         /\ e.post.session = e.pre.session
         /\ e.post.client = e.pre.client
         /\ e.post.clientObj = e.pre.clientObj

\* a request with the server's version came in behind a disconnect in the
\* same chunk while another connection's session was registered: the reject
\* was built and not written
C1_Witness ==
  \E i \in DOMAIN ev.log :
    LET e == ev.log[i] IN
    /\ IsRequest(e) /\ RequestVersion(e.payload) = PROTOCOL_VERSION
    /\ e.pre.client # None
    /\ e.pre.closing
    /\ e.out = << >>

\* C2: a handshake request with another version than the server's is
\* answered with reject(reason 1); no session is created, the slot is
\* unchanged and the server does not close the connection.
C2_VersionMismatchRejected ==
  \A i \in DOMAIN ev.log :
    LET e == ev.log[i] IN
    (IsRequest(e) /\ RequestVersion(e.payload) # PROTOCOL_VERSION)
      => /\ e.out = << RejectBytes(1) >>
         /\ e.post.session = e.pre.session
         /\ e.post.client = e.pre.client
         /\ e.post.clientObj = e.pre.clientObj
         /\ e.post.closing = e.pre.closing

\* a request with another version came in behind a disconnect in the same
\* chunk: nothing was written
C2_Witness ==
  \E i \in DOMAIN ev.log :
    LET e == ev.log[i] IN
    /\ IsRequest(e) /\ RequestVersion(e.payload) # PROTOCOL_VERSION
    /\ e.pre.closing
    /\ e.out = << >>

\* C3: a handshake request with the server's version, received while no
\* session is registered, registers a new session with the peer's address
\* and the declared name, and the server sends exactly one handshake-ack
\* (version, UDP port, keepalive interval) and no reject.
C3_AdmissionAcked ==
  \A i \in DOMAIN ev.log :
    LET e == ev.log[i] IN
    (IsRequest(e) /\ RequestVersion(e.payload) = PROTOCOL_VERSION /\ e.pre.client = None)
      => /\ e.post.client # None
         /\ e.post.client = e.post.session
         /\ e.post.clientObj.address = peer[ev.conn]
         /\ e.post.clientObj.name = ClientName(ev.conn)
         /\ e.out = << AckBytes >>

\* a request with the server's version came in behind a disconnect in the
\* same chunk while the slot was empty: a session was registered for the
\* closing connection and no ack was written
C3_Witness ==
  \E i \in DOMAIN ev.log :
    LET e == ev.log[i] IN
    /\ IsRequest(e) /\ RequestVersion(e.payload) = PROTOCOL_VERSION
    /\ e.pre.client = None
    /\ e.pre.closing
    /\ e.post.client # None
    /\ e.out = << >>

\* connection c holds the session registered as the server's active client
Admitted(c) == session[c] # None /\ client = session[c]

\* the last step handed the server bytes from c's peer, or c's connection
\* went away
HeardFrom(c) == ev.conn = c /\ ev.kind \in {"data_received", "connection_lost"}

\* the last step was a sweep that evicted c: slot cleared, transport closed
Evicted(c) ==
  /\ ev.kind = "keepalive"
  /\ \E i \in DOMAIN ev.evicted : ev.evicted[i] = c
  /\ client = None
  /\ transport[c] # "open"

\* C4: an admitted session from whose connection nothing more arrives (no
\* pong, no close by the peer) is eventually evicted by the sweep, however
\* many sweeps ran between the accept and the handshake.
C4_SilentClientEvicted ==
  \A c \in Conns : Admitted(c) ~> (Evicted(c) \/ HeardFrom(c))

\* a sweep ran over an admitted session on an open connection and neither
\* pinged nor evicted it
C4_Witness ==
  /\ ev.kind = "keepalive"
  /\ ev.pinged = << >> /\ ev.evicted = << >>
  /\ \E c \in Conns : Admitted(c) /\ transport[c] = "open"

\* C5: a session is evicted only once its last pong is at least the timeout
\* old, only while it is the registered session (so never a second time),
\* and no session is still registered past the deadline.
C5_EvictionTiming ==
  /\ \A i \in DOMAIN ev.evicted :
       /\ heap[session[ev.evicted[i]]].age >= keepalive_timeout
       /\ client = None
       /\ \A j \in DOMAIN ev.evicted : ev.evicted[j] = ev.evicted[i] => j = i
  /\ client # None => heap[client].age <= keepalive_timeout

\* a session is registered, its last pong is older than the timeout, and
\* its connection is not in the list the sweep goes through
C5_Witness ==
  /\ client # None
  /\ heap[client].age > keepalive_timeout
  /\ \E c \in Conns : /\ session[c] = client
                      /\ transport[c] = "open"
                      /\ \A i \in DOMAIN protocols : protocols[i] # c

\* C7: while no session is registered, a datagram - also one from the IP of
\* the client that was admitted before - invokes no handler.
C7_NoSessionNoInput ==
  (ev.kind = "datagram_received" /\ client = None) => ev.calls = << >>

\* a well-formed datagram from the IP of a session that a sweep evicted
\* (the connection still holds the stale session) found the slot empty
C7_Witness ==
  /\ ev.kind = "datagram_received"
  /\ client = None
  /\ ev.by = "no client"
  /\ ev.data \in MainDatagrams
  /\ \E c \in Conns : /\ session[c] # None
                      /\ transport[c] = "closing"
                      /\ heap[session[c]].address[1] = ev.addr[1]

\* what the server keeps: connections, sessions, the slot, the list swept
serverState == << transport, peer, buffer, session, protocols, client, heap >>

\* the datagram of the last step came from the registered session's IP
FromClient == client # None /\ ev.addr[1] = heap[client].address[1]

\* C6: a datagram whose source IP is not the registered session's IP
\* invokes no handler and changes no server state, whatever it contains.
C6_SenderIsolation ==
  [][ ( /\ ev'.kind = "datagram_received"
        /\ client # None
        /\ ev'.addr[1] # heap[client].address[1] )
      => (ev'.calls = << >> /\ UNCHANGED serverState) ]_vars

\* a routable datagram came from the IP of a peer that is connected but is
\* not the admitted client, and was dropped by the sender check
C6_Witness ==
  /\ ev.kind = "datagram_received"
  /\ client # None
  /\ ev.addr[1] # heap[client].address[1]
  /\ \E c \in Conns : transport[c] = "open" /\ peer[c][1] = ev.addr[1]
  /\ \E r \in Routes : ev.data = r.data
  /\ ev.by = "sender"
  /\ ev.calls = << >>

\* C8: handling a datagram never lets an exception escape and never changes
\* server state, and a well-formed datagram from the admitted client that
\* follows a runt, truncated, corrupt or invalid one causes the same call
\* as it does otherwise.
C8_DatagramFaultIsolation ==
  [][ ev'.kind = "datagram_received"
      => /\ ~ev'.escaped
         /\ UNCHANGED serverState
         /\ \A r \in Routes :
              ( /\ ev'.data = r.data
                /\ client # None
                /\ ev'.addr[1] = heap[client].address[1] )
              => ev'.calls = << [ handler |-> r.handler, arg |-> r.arg ] >> ]_vars

\* a well-formed datagram right after a bad one reached its handler
C8_Witness ==
  /\ ev.kind = "datagram_received"
  /\ ev.after_bad
  /\ FromClient
  /\ \E r \in Routes : ev.data = r.data /\ ev.calls # << >>

\* a truncated datagram from the admitted client raised in the decoder and
\* the exception was caught
C8_WitnessCaught ==
  /\ ev.kind = "datagram_received"
  /\ FromClient
  /\ ev.data = Truncated
  /\ ev.caught = "struct.error"
  /\ ~ev.escaped

\* C9: a well-formed datagram from the admitted client's IP, from any
\* source port, causes exactly one call: of the handler its type (and for a
\* system action its action id) selects, with the decoded message.
C9_DatagramRouting ==
  \A r \in Routes :
    (ev.kind = "datagram_received" /\ ev.data = r.data /\ FromClient)
      => /\ Len(ev.calls) = 1
         /\ ev.calls[1].handler = r.handler
         /\ ev.calls[1].arg = r.arg

\* a key-down datagram for keycode 4 from the admitted client, sent from a
\* port other than its TCP port, reached the keyboard handler once
C9_Witness ==
  /\ ev.kind = "datagram_received"
  /\ FromClient
  /\ ev.addr[2] # heap[client].address[2]
  /\ ev.data = KeyEventEncode(7, 0, 4, 2)
  /\ Len(ev.calls) = 1
  /\ ev.calls[1].handler = "keyboard.handle_key_event"
  /\ ev.calls[1].arg.action = 0 /\ ev.calls[1].arg.keycode = 4

\* a scroll datagram from the admitted client reached handle_scroll
C9_WitnessScroll ==
  /\ ev.kind = "datagram_received"
  /\ FromClient
  /\ ev.data = MouseScrollEncode(7, 0, -1)
  /\ Len(ev.calls) = 1
  /\ ev.calls[1].handler = "mouse.handle_scroll"

\* number of bytes of the stream the server has been handed
Received == Len(Wire(stream, Len(stream))) - Len(unsent[1])

\* number of leading messages of the stream that lie wholly within the
\* bytes handed over
Complete ==
  CHOOSE n \in 0..Len(stream) :
    /\ Len(Wire(stream, n)) <= Received
    /\ n < Len(stream) => Len(Wire(stream, n + 1)) > Received

\* C10: however the stream of whole messages is cut into chunks, the
\* messages dispatched so far are exactly the messages whose bytes have
\* wholly arrived, once each and in order, and the bytes of the message
\* still incomplete are in the buffer as they arrived.
C10_FramingIndependentOfChunking ==
  stream # << >> =>
    /\ dispatched = SubSeq(stream, 1, Complete)
    /\ buffer[1] = Slice(Wire(stream, Len(stream)), Len(Wire(stream, Complete)), Received)

\* the stream came in more than one chunk, the last call dispatched two
\* messages or more, and the whole stream has been dispatched
C10_Witness ==
  /\ stream # << >>
  /\ ev.kind = "data_received"
  /\ Len(ev.log) >= 2
  /\ Len(dispatched) > Len(ev.log)
  /\ dispatched = stream

\* a header has arrived whole and its payload in part, after an earlier
\* message was dispatched: nothing is dispatched for it yet
C10_WitnessPartial ==
  /\ stream # << >>
  /\ dispatched # << >>
  /\ Len(buffer[1]) > HEADER_SIZE
  /\ ev.log = << >>

\* the first four buffered bytes of connection c do not decode as a header
FatalHead(c) == Len(buffer[c]) >= HEADER_SIZE /\ buffer[c][2] \notin MessageType

\* C11: when the first four buffered bytes do not decode as a header the
\* transport is closed; only a message in front of those bytes was
\* dispatched in that call, the bad header and all bytes behind it stay in
\* the buffer, and from then on nothing is taken from that buffer: no
\* message is dispatched and no byte is skipped.
C11_FatalHeader ==
  [][ \A c \in Conns :
        /\ FatalHead(c)' =>
             /\ transport'[c] # "open"
             /\ buffer'[c] = FatalThenPing
             /\ (ev'.kind = "data_received" /\ ev'.conn = c) =>
                  \A i \in DOMAIN ev'.log :
                    i = 1 /\ ev'.log[i].msg_type = PING /\ ~ev'.log[i].pre.closing
        /\ FatalHead(c) =>
             /\ buffer'[c] = buffer[c]
             /\ ~(ev'.kind = "data_received" /\ ev'.conn = c) ]_vars

\* a chunk held a ping, a header with an unknown type byte and another
\* ping: the first ping was dispatched, the rest is in the buffer and the
\* transport is closing
C11_Witness ==
  \E c \in Conns :
    /\ ev.kind = "data_received" /\ ev.conn = c
    /\ Len(ev.log) = 1 /\ ev.log[1].msg_type = PING
    /\ buffer[c] = FatalThenPing
    /\ transport[c] = "closing"

\* log entry e left the session state of its connection and the slot as
\* they were
SessionStateKept(e) ==
  /\ e.post.session = e.pre.session
  /\ e.post.sessionObj = e.pre.sessionObj
  /\ e.post.client = e.pre.client
  /\ e.post.clientObj = e.pre.clientObj

\* the one thing written for log entry e is a message of type t
RepliedWith(e, t) == Len(e.out) = 1 /\ e.out[1][2] = t

\* the types a connection with a session handles
ActiveTypes == { HANDSHAKE_REQ, PING, PONG, DISCONNECT, GET_SYSTEM_STATE, LAUNCH_APP }

\* log entry e is a message its connection's state does not expect: not a
\* handshake while there is no session, not a control or command type while
\* there is one (the transport being open)
Unexpected(e) ==
  /\ ~e.pre.closing
  /\ \/ e.pre.session = None /\ e.msg_type # HANDSHAKE_REQ
     \/ e.pre.session # None /\ e.msg_type \notin ActiveTypes

\* C12: a message the connection's state does not expect is answered with
\* one error message, changes no session state and does not close the
\* connection.
C12_UnexpectedAnsweredWithError ==
  \A i \in DOMAIN ev.log :
    LET e == ev.log[i] IN
    Unexpected(e) =>
      /\ RepliedWith(e, ERROR)
      /\ SessionStateKept(e)
      /\ ~e.post.closing
      /\ e.exc = "none"

\* a ping arrived on a connection that has not handshaken and was answered
\* with a pong
C12_Witness ==
  \E i \in DOMAIN ev.log :
    LET e == ev.log[i] IN
    /\ e.msg_type = PING
    /\ e.pre.session = None /\ ~e.pre.closing
    /\ e.out = << << 1, 17, 0, 0 >> >>

\* C13: a get-system-state or launch-app message on a connection without a
\* session makes no call into the collaborators and is answered with
\* neither a system-state-response nor an ack.
C13_CommandsRequireAdmission ==
  \A i \in DOMAIN ev.log :
    LET e == ev.log[i] IN
    (e.msg_type \in { GET_SYSTEM_STATE, LAUNCH_APP } /\ e.pre.session = None)
      => /\ e.calls = << >>
         /\ \A j \in DOMAIN e.out : e.out[j][2] \notin { SYSTEM_STATE_RESPONSE, ACK }

\* a launch-app message on a connection that has not handshaken, while no
\* session is registered at all, reached launch_app and was acked
C13_Witness ==
  \E i \in DOMAIN ev.log :
    LET e == ev.log[i] IN
    /\ e.msg_type = LAUNCH_APP
    /\ e.pre.session = None /\ e.pre.client = None
    /\ e.calls = << [ method |-> "launch_app", arg |-> AppName ] >>
    /\ RepliedWith(e, ACK)

\* C14: a disconnect message on the connection that holds the registered
\* session empties the slot, closes the transport and is answered with
\* nothing; with the slot empty, a handshake with the server's version on an
\* open connection is admitted.
C14_GracefulDisconnect ==
  \A i \in DOMAIN ev.log :
    LET e == ev.log[i] IN
    /\ (e.msg_type = DISCONNECT /\ e.pre.session # None /\ e.pre.client = e.pre.session)
         => /\ e.post.client = None
            /\ e.post.session = None
            /\ e.post.closing
            /\ e.out = << >>
    /\ ( /\ IsRequest(e) /\ RequestVersion(e.payload) = PROTOCOL_VERSION
         /\ e.pre.client = None /\ ~e.pre.closing )
         => (e.post.client # None /\ e.post.client = e.post.session)

\* the admitted connection sent a disconnect while another connection was
\* open: the slot is empty and the sender's transport is closing
C14_Witness ==
  \E c \in Conns :
    /\ ev.kind = "data_received" /\ ev.conn = c
    /\ Len(ev.log) = 1 /\ ev.log[1].msg_type = DISCONNECT
    /\ ev.log[1].pre.client # None /\ ev.log[1].pre.client = ev.log[1].pre.session
    /\ client = None /\ session[c] = None /\ transport[c] = "closing"
    /\ \E d \in Conns \ {c} : transport[d] = "open" /\ session[d] = None

\* C15: when connection_lost runs on a connection, the connection keeps no
\* session, and the slot is emptied if it held that connection's session;
\* so a registered session always belongs to a connection that is not gone.
C15_TeardownOnConnectionLoss ==
  [][ /\ \A c \in Conns :
           (ev'.kind = "connection_lost" /\ ev'.conn = c)
             => /\ session'[c] = None
                /\ transport'[c] = "lost"
                /\ client' = IF client = session[c] THEN None ELSE client
      /\ client' # None
           => \E c \in Conns : session'[c] = client' /\ transport'[c] \in {"open", "closing"}
    ]_vars

\* the peer of the admitted connection dropped it: the slot is empty
C15_Witness ==
  /\ ev.kind = "connection_lost"
  /\ ev.by = "peer"
  /\ ev.held # None
  /\ client = None
  /\ session[ev.conn] = None

\* C16: no message is dispatched on a connection whose transport the server
\* has closed, also none that was buffered behind a disconnect in the same
\* chunk, and so no session is created for such a connection.
C16_ClosedIsTerminal ==
  /\ \A i \in DOMAIN ev.log : ~ev.log[i].pre.closing
  /\ \A c \in Conns :
       (ev.kind = "data_received" /\ ev.conn = c /\ transport[c] # "open")
         => session[c] = None

\* a message was dispatched right behind a disconnect of the same chunk
C16_Witness ==
  \E i \in DOMAIN ev.log :
    /\ i > 1
    /\ ev.log[i - 1].msg_type = DISCONNECT
    /\ ev.log[i].pre.closing

\* the place in dispatched of the i-th message of the last call
Place(i) == Len(dispatched) - Len(ev.log) + i

\* log entry e is a handshake request that gave its connection a session
Admits(e) == e.msg_type = HANDSHAKE_REQ /\ e.post.session # e.pre.session

\* C17: a handshake request that gives the connection a session is the
\* first handshake request dispatched on that connection: a connection
\* whose handshake was answered is not admitted by a later one.
C17_HandshakeOncePerConnection ==
  \A i \in DOMAIN ev.log :
    Admits(ev.log[i])
      => \A j \in 1..(Place(i) - 1) : dispatched[j].msg_type # HANDSHAKE_REQ

\* the connection's first request, with version 2, was answered with
\* reject(1), and its second, with version 1, was admitted and acked
C17_Witness ==
  /\ Len(dispatched) = 2
  /\ dispatched[1].msg_type = HANDSHAKE_REQ /\ RequestVersion(dispatched[1].payload) = 2
  /\ Len(ev.log) >= 1
  /\ Place(Len(ev.log)) = 2
  /\ Admits(ev.log[Len(ev.log)])
  /\ ev.log[Len(ev.log)].out = << AckBytes >>
  /\ client # None /\ client = session[1]

\* the pong message on the wire
PongBytes == << 1, 17, 0, 0 >>

\* C18: a ping on a connection with a session (transport open) is answered
\* with exactly one pong and changes no session state; a pong on a
\* connection with a session sets that session's last_pong to now (its age
\* to 0) and changes nothing else; a pong on a connection without session
\* changes nothing; neither pong is answered.
C18_PingPong ==
  \A i \in DOMAIN ev.log :
    LET e == ev.log[i] IN
    /\ (e.msg_type = PING /\ e.pre.session # None /\ ~e.pre.closing)
         => /\ e.out = << PongBytes >>
            /\ SessionStateKept(e)
            /\ ~e.post.closing
    /\ (e.msg_type = PONG /\ e.pre.session # None)
         => /\ e.post.sessionObj = [ e.pre.sessionObj EXCEPT !.age = 0 ]
            /\ e.post.session = e.pre.session
            /\ e.post.client = e.pre.client
            /\ e.post.clientObj = IF e.pre.client = e.pre.session
                                    THEN e.post.sessionObj ELSE e.pre.clientObj
            /\ e.post.closing = e.pre.closing
            /\ e.out = << >>
    /\ (e.msg_type = PONG /\ e.pre.session = None)
         => /\ SessionStateKept(e)
            /\ e.post.closing = e.pre.closing
            /\ e.out = << >>

\* a pong arrived for a session whose last pong was at least a second old
C18_Witness ==
  \E i \in DOMAIN ev.log :
    LET e == ev.log[i] IN
    /\ e.msg_type = PONG
    /\ e.pre.session # None
    /\ e.pre.sessionObj.age > 0
    /\ e.post.sessionObj.age = 0

\* a ping arrived on the admitted connection and was answered with a pong
C18_WitnessPing ==
  \E i \in DOMAIN ev.log :
    LET e == ev.log[i] IN
    /\ e.msg_type = PING
    /\ e.pre.session # None /\ e.pre.client = e.pre.session
    /\ e.out = << PongBytes >>

\* ack and command-error for app id 0 on the wire
AckZero == << 1, 97, 0, 1, 0 >>
CommandErrorZero == << 1, 98, 0, 1, 0 >>

\* log entry e was dispatched on a connection with a session and an open
\* transport
OnActive(e) == e.pre.session # None /\ ~e.pre.closing

\* C19: a launch-app message on an active connection is answered with
\* exactly one message: an ack for app id 0 if the launch succeeded, a
\* command-error for app id 0 if it failed or raised; no exception leaves
\* the handler, the connection stays open and the session is unchanged.
C19_LaunchAppOutcome ==
  \A i \in DOMAIN ev.log :
    LET e == ev.log[i] IN
    (e.msg_type = LAUNCH_APP /\ OnActive(e))
      => /\ e.exc = "none"
         /\ ~e.post.closing
         /\ SessionStateKept(e)
         /\ e.out = IF e.calls # << >> /\ ev.env.launch = "started"
                      THEN << AckZero >> ELSE << CommandErrorZero >>

\* the launch of "x" failed inside launch_app and the message was acked
C19_Witness ==
  \E i \in DOMAIN ev.log :
    LET e == ev.log[i] IN
    /\ e.msg_type = LAUNCH_APP /\ OnActive(e)
    /\ e.calls = << [ method |-> "launch_app", arg |-> AppName ] >>
    /\ ev.env.launch = "failed"
    /\ e.out = << AckZero >>

\* x and y differ by at most one
Within1(x, y) == x - y <= 1 /\ y - x <= 1

\* C20: a get-system-state message on an active connection is answered
\* with exactly one system-state-response (type 0x60, six payload bytes)
\* whose brightness and volume, in hundredths, are within one hundredth of
\* what get_brightness and get_volume reported; no session state changes.
C20_SystemStateQuery ==
  \A i \in DOMAIN ev.log :
    LET e == ev.log[i] IN
    (e.msg_type = GET_SYSTEM_STATE /\ OnActive(e))
      => /\ Len(e.out) = 1
         /\ Len(e.out[1]) = 10
         /\ Slice(e.out[1], 0, 4) = << 1, 96, 0, 6 >>
         /\ Within1(e.out[1][5] * 256 + e.out[1][6], ev.env.brightness)
         /\ Within1(e.out[1][7] * 256 + e.out[1][8], ev.env.volume)
         /\ e.calls = << [ method |-> "get_brightness", arg |-> << >> ],
                         [ method |-> "get_volume", arg |-> << >> ] >>
         /\ SessionStateKept(e)
         /\ ~e.post.closing

\* brightness 0.29 and volume 0.57 were reported and the response carries
\* 28 and 56
C20_Witness ==
  \E i \in DOMAIN ev.log :
    LET e == ev.log[i] IN
    /\ e.msg_type = GET_SYSTEM_STATE /\ OnActive(e)
    /\ ev.env.brightness = 29 /\ ev.env.volume = 57
    /\ e.out = << << 1, 96, 0, 6, 0, 28, 0, 56, 0, 0 >> >>

\* a comes before b in what shutdown did
DidBefore(a, b) ==
  \E i, j \in DOMAIN run.did : i < j /\ run.did[i] = a /\ run.did[j] = b

\* C21: shutdown cancels the keepalive task, then closes the listener and
\* every open connection, then closes the datagram socket: once _run is at
\* or past the wait for the listener, those steps were done in that order
\* and no connection is open; and a shutdown that was signalled ends.
C21_ShutdownOrderAndTermination ==
  /\ [](run.pc \in {"wait_closed", "stopped"}
          => /\ run.server = "closed"
             /\ DidBefore("keepalive_task.cancel", "server.close")
             /\ DidBefore("server.close", "udp_transport.close")
             /\ \A c \in Conns : transport[c] # "open")
  /\ (run.pc = "signalled" ~> run.pc = "stopped")

\* _run waits for the listener with the datagram socket closed and the
\* keepalive task cancelled while the admitted client's connection is open
C21_Witness ==
  /\ run.pc = "wait_closed"
  /\ run.did[1] = "udp_transport.close"
  /\ run.did[4] = "wait_closed for connections"
  /\ run.keepalive_task = "cancelled"
  /\ \E c \in Conns : Admitted(c) /\ transport[c] = "open"

\* once signalled, shutdown ends
C21_Terminates == run.pc = "signalled" ~> run.pc = "stopped"

\* C22: an event on a connection that does not hold the registered session
\* (bytes of any kind handed in, or the loss of the connection) leaves the
\* registered session and its fields, every other connection's transport,
\* session and buffer, and all the keepalive sweep goes by (its list of
\* protocols, its timer, its task) as they were.
C22_CrossConnectionIsolation ==
  [][ \A c \in Conns :
        ( /\ ev'.kind \in {"data_received", "connection_lost"} /\ ev'.conn = c
          /\ client # None /\ session[c] # client )
        => /\ client' = client
           /\ heap'[client] = heap[client]
           /\ \A d \in Conns \ {c} :
                /\ transport'[d] = transport[d]
                /\ session'[d] = session[d]
                /\ buffer'[d] = buffer[d]
           /\ UNCHANGED << protocols, sinceSweep, run >> ]_vars

\* a connection that still held the session a sweep had evicted went away
\* while another connection's session was registered, and that session
\* stays registered
C22_Witness ==
  /\ ev.kind = "connection_lost"
  /\ ev.held # None
  /\ client # None /\ client # ev.held
  /\ \E d \in Conns \ {ev.conn} : Admitted(d) /\ transport[d] = "open"

\* a launch-app payload that ends inside the timestamp raised on a
\* connection without session while another connection's session was
\* registered
C22_WitnessMalformed ==
  /\ ev.kind = "data_received"
  /\ ev.exc = "struct.error"
  /\ session[ev.conn] = None
  /\ \E d \in Conns \ {ev.conn} : Admitted(d) /\ transport[d] = "open"

\* C23: handling a datagram, accepted or dropped, leaves the session slot,
\* every session object and every connection's session as they were; the
\* slot changes only in data_received, and there only at a handshake
\* request (from empty to a session) or a disconnect message (to empty),
\* in connection_lost (to empty) and in a keepalive sweep that evicts (to
\* empty).
C23_SingleWriterOfSlot ==
  [][ /\ ev'.kind = "datagram_received"
           => UNCHANGED << client, heap, session >>
      /\ client' # client
           => \/ /\ ev'.kind = "data_received"
                 /\ \A i \in DOMAIN ev'.log :
                      LET e == ev'.log[i] IN
                      e.post.client # e.pre.client
                        => \/ e.msg_type = HANDSHAKE_REQ /\ e.pre.client = None
                           \/ e.msg_type = DISCONNECT /\ e.post.client = None
              \/ ev'.kind = "connection_lost" /\ client' = None
              \/ ev'.kind = "keepalive" /\ ev'.evicted # << >> /\ client' = None
    ]_vars

\* a routable datagram from the admitted client was handed to its handler
\* after at least a second of the session's life: the slot holds the session
C23_Witness ==
  /\ ev.kind = "datagram_received"
  /\ FromClient
  /\ ev.calls # << >>
  /\ heap[client].age > 0

\* a sweep evicted the session and emptied the slot
C23_WitnessEvicted ==
  /\ ev.kind = "keepalive"
  /\ ev.evicted # << >>
  /\ client = None

\* message m has field values its layout can carry: a client name of at
\* most 32 bytes, an application name of at most 128, an error text of at
\* most 256, brightness and volume between 0.00 and 1.00
ValidFields(m) ==
  /\ m.kind = "HandshakeReq" => Len(m.client_name) <= HANDSHAKE_REQ_NAME_LEN
  /\ m.kind = "LaunchApp" => Len(m.app_name) <= 128
  /\ m.kind = "Error" => Len(m.message) <= 256
  /\ m.kind = "SystemStateResponse" => m.brightness \in 0..100 /\ m.volume \in 0..100

\* the header type of message m
TypeOf(m) ==
  CASE m.kind = "Ping" -> PING [] m.kind = "Pong" -> PONG [] m.kind = "Disconnect" -> DISCONNECT

\* result r of decode_message gives message m back; for a message that is
\* a header only, its type and no payload object
GivesBack(r, m) ==
  /\ r.exc = "none"
  /\ IF m.kind \in {"Ping", "Pong", "Disconnect"}
       THEN r.msg = NoMsg /\ r.header.msg_type = TypeOf(m)
       ELSE r.msg = m

\* C24: for every message variant and all valid field values, decoding
\* what encode produced gives a message equal to the original.
C24_CodecRoundTrip ==
  (ev.kind = "decoded" /\ ev.from = "encoded" /\ ValidFields(ev.msg))
    => GivesBack(ev.result, ev.msg)

\* a system-state-response with brightness 0.29 came back with 0.28
C24_Witness ==
  /\ ev.kind = "decoded" /\ ev.from = "encoded"
  /\ ev.msg.kind = "SystemStateResponse"
  /\ ev.msg.brightness = 29
  /\ ev.result.exc = "none"
  /\ ev.result.msg.brightness = 28

\* the round trip of every valid message other than a system-state-response
\* whose brightness or volume is 0.29, 0.57 or 0.58
C24_RoundTripElsewhere ==
  ( /\ ev.kind = "decoded" /\ ev.from = "encoded" /\ ValidFields(ev.msg)
    /\ ev.msg.kind = "SystemStateResponse"
         => {ev.msg.brightness, ev.msg.volume} \cap {29, 57, 58} = {} )
    => GivesBack(ev.result, ev.msg)

\* C25: in every message an encoder produces, the payload length the
\* header declares is the number of bytes that follow the header, and
\* header and payload together are at most 512 bytes (the payload at most
\* 508), also when the client name, the application name or the error text
\* is longer than its field.
C25_HeaderInvariantAndSizeBound ==
  ev.kind = "encoded"
    => /\ Len(ev.wire) >= HEADER_SIZE
       /\ U16Unpack(ev.wire, 3) = Len(ev.wire) - HEADER_SIZE
       /\ Len(ev.wire) <= MAX_PAYLOAD_SIZE
       /\ Len(ev.wire) - HEADER_SIZE <= MAX_PAYLOAD_SIZE - HEADER_SIZE

\* an error text of 600 bytes was encoded: 256 bytes of it behind a header
\* that declares 256
C25_Witness ==
  /\ ev.kind = "encoded"
  /\ ev.msg.kind = "Error" /\ Len(ev.msg.message) = 600
  /\ Len(ev.wire) = 260
  /\ U16Unpack(ev.wire, 3) = 256

\* a client name of 100 bytes and an application name of 300 bytes were
\* encoded into 40 and 137 bytes
C25_WitnessNames ==
  /\ ev.kind = "encoded"
  /\ \/ ev.msg.kind = "HandshakeReq" /\ Len(ev.msg.client_name) = 100 /\ Len(ev.wire) = 40
     \/ ev.msg.kind = "LaunchApp" /\ Len(ev.msg.app_name) = 300 /\ Len(ev.wire) = 137

\* the payload bytes of w that decode_message hands to the decoder
PayloadOf(w) == Slice(w, HEADER_SIZE, HEADER_SIZE + U16Unpack(w, 3))

\* the payload size of a message of type t: the fixed size of its layout,
\* for launch-app the five fixed bytes and the name length it declares
Needed(t, payload) ==
  CASE t = HANDSHAKE_REQ -> HANDSHAKE_REQ_SIZE
    [] t = HANDSHAKE_ACK -> HANDSHAKE_ACK_SIZE
    [] t = HANDSHAKE_REJECT -> HANDSHAKE_REJECT_SIZE
    [] t \in {MOUSE_MOVE, MOUSE_SCROLL} -> MOUSE_MOVE_SIZE
    [] t = MOUSE_CLICK -> MOUSE_CLICK_SIZE
    [] t = MOUSE_DRAG -> MOUSE_DRAG_SIZE
    [] t = KEY_EVENT -> KEY_EVENT_SIZE
    [] t = SYSTEM_ACTION -> SYSTEM_ACTION_SIZE
    [] t = LAUNCH_APP -> IF Len(payload) >= 5 THEN 5 + payload[5] ELSE 5
    [] t = SYSTEM_STATE_RESPONSE -> SYSTEM_STATE_RESPONSE_SIZE
    [] t = ACK -> ACK_SIZE
    [] t = COMMAND_ERROR -> COMMAND_ERROR_SIZE
    [] OTHER -> 0

\* w has a header of a known type
KnownType(w) == Len(w) >= HEADER_SIZE /\ w[2] \in MessageType

\* fewer payload bytes are there than the type of w needs
TooShort(w) == KnownType(w) /\ Len(PayloadOf(w)) < Needed(w[2], PayloadOf(w))

\* the payload of w is all there and one of its enumeration fields holds a
\* value outside the enumeration
EnumOutOfRange(w) ==
  /\ KnownType(w) /\ ~TooShort(w)
  /\ LET p == PayloadOf(w) IN
     \/ w[2] = MOUSE_CLICK /\ (p[5] \notin MouseButton \/ p[6] \notin ClickAction)
     \/ w[2] = MOUSE_DRAG /\ p[5] \notin MouseButton
     \/ w[2] = KEY_EVENT /\ p[5] \notin KeyAction
     \/ w[2] = SYSTEM_ACTION /\ p[5] \notin SystemActionId

\* C26: decoding raises an error and yields no message when fewer payload
\* bytes are there than the type needs (a handshake request of less than 36
\* bytes, a launch-app with less than the name length it declares, every
\* fixed layout cut short), when the type byte is in no enumeration, and
\* when a button, click action, key action or system-action id is outside
\* its range.
C26_DecodeFailures ==
  ( /\ ev.kind = "decoded"
    /\ \/ TooShort(ev.wire)
       \/ Len(ev.wire) >= HEADER_SIZE /\ ev.wire[2] \notin MessageType
       \/ EnumOutOfRange(ev.wire) )
    => (ev.result.exc # "none" /\ ev.result.msg = NoMsg)

\* a handshake request with 10 payload bytes was decoded without an error
\* into a request with the name "A"
C26_Witness ==
  /\ ev.kind = "decoded" /\ ev.from = "bytes"
  /\ ev.wire[2] = HANDSHAKE_REQ /\ U16Unpack(ev.wire, 3) = 10 /\ Len(ev.wire) = 14
  /\ ev.result.exc = "none"
  /\ ev.result.msg.kind = "HandshakeReq"
  /\ ev.result.msg.client_name = << 65 >>

\* the same for everything but a handshake request that has its four fixed
\* bytes and a launch-app that has its five
C26_FailuresElsewhere ==
  ( /\ ev.kind = "decoded"
    /\ \/ TooShort(ev.wire)
       \/ Len(ev.wire) >= HEADER_SIZE /\ ev.wire[2] \notin MessageType
       \/ EnumOutOfRange(ev.wire)
    /\ ~(KnownType(ev.wire) /\ ev.wire[2] = HANDSHAKE_REQ
           /\ Len(PayloadOf(ev.wire)) >= HANDSHAKE_REQ_FIXED_SIZE)
    /\ ~(KnownType(ev.wire) /\ ev.wire[2] = LAUNCH_APP /\ Len(PayloadOf(ev.wire)) >= 5) )
    => (ev.result.exc # "none" /\ ev.result.msg = NoMsg)

\* a mouse-move cut short by a byte, a type byte of 153 and a click with
\* button 3 were each refused with an exception
C26_WitnessRefused ==
  /\ ev.kind = "decoded" /\ ev.from = "bytes"
  /\ \/ ev.wire[2] = MOUSE_MOVE /\ ev.result.exc = "struct.error"
     \/ ev.wire[2] = 153 /\ ev.result.exc = "ValueError"
     \/ ev.wire = MouseClickEncode(7, 3, 0) /\ ev.result.exc = "ValueError"

\* the brightness and volume fields of an encoded system-state-response
BrightnessField(w) == U16Unpack(w, 5)
VolumeField(w) == U16Unpack(w, 7)

\* x, or 65535 where x is more
Clamped(x) == IF x > 65535 THEN 65535 ELSE x

\* C27: brightness and volume are encoded as the value times 100 in an
\* unsigned 16-bit field, and a scaled value above 65535 is encoded as
\* 65535: it does not wrap around to a small value.
C27_FixedPointClamping ==
  (ev.kind = "encoded" /\ ev.msg.kind = "SystemStateResponse")
    => /\ BrightnessField(ev.wire) = Clamped(IntTimes100(ev.msg.brightness))
       /\ VolumeField(ev.wire) = Clamped(IntTimes100(ev.msg.volume))

\* brightness 655.36 was encoded as 0
C27_Witness ==
  /\ ev.kind = "encoded" /\ ev.msg.kind = "SystemStateResponse"
  /\ ev.msg.brightness = 65536
  /\ BrightnessField(ev.wire) = 0

\* up to 655.35 the field is the value times 100, cut to a whole number
C27_ScaledWithinRange ==
  ( /\ ev.kind = "encoded" /\ ev.msg.kind = "SystemStateResponse"
    /\ ev.msg.brightness <= 65535 )
    => /\ BrightnessField(ev.wire) = IntTimes100(ev.msg.brightness)
       /\ VolumeField(ev.wire) = IntTimes100(ev.msg.volume)

\* C28: a handshake request with another version than the server's that
\* arrives while a session is registered is answered with reject(reason 1),
\* not 2; and reject(reason 2) is only ever the answer to a handshake
\* request with the server's version.
C28_AdmissionCheckOrder ==
  \A i \in DOMAIN ev.log :
    LET e == ev.log[i] IN
    /\ (IsRequest(e) /\ RequestVersion(e.payload) # PROTOCOL_VERSION /\ e.pre.client # None)
         => e.out = << RejectBytes(1) >>
    /\ (\E j \in DOMAIN e.out : e.out[j] = RejectBytes(2))
         => (IsRequest(e) /\ RequestVersion(e.payload) = PROTOCOL_VERSION)

\* a request with version 2 came in behind a disconnect in the same chunk
\* while another connection's session was registered: nothing was written
C28_Witness ==
  \E i \in DOMAIN ev.log :
    LET e == ev.log[i] IN
    /\ IsRequest(e) /\ RequestVersion(e.payload) # PROTOCOL_VERSION
    /\ e.pre.client # None /\ e.pre.client # e.pre.session
    /\ e.pre.closing
    /\ e.out = << >>

\* the same on transports that are not closing
C28_OrderWhileOpen ==
  \A i \in DOMAIN ev.log :
    LET e == ev.log[i] IN
    /\ ( /\ IsRequest(e) /\ RequestVersion(e.payload) # PROTOCOL_VERSION
         /\ e.pre.client # None /\ ~e.pre.closing )
         => e.out = << RejectBytes(1) >>
    /\ (\E j \in DOMAIN e.out : e.out[j] = RejectBytes(2))
         => (IsRequest(e) /\ RequestVersion(e.payload) = PROTOCOL_VERSION)

\* a request with version 2 arrived on an open connection while another
\* connection's session was registered and was answered with reject(1)
C28_WitnessWhileOpen ==
  \E i \in DOMAIN ev.log :
    LET e == ev.log[i] IN
    /\ IsRequest(e) /\ RequestVersion(e.payload) # PROTOCOL_VERSION
    /\ e.pre.client # None /\ ~e.pre.closing
    /\ e.out = << RejectBytes(1) >>

\* how often connection c occurs in the sequence q
Times(q, c) == Cardinality({ i \in DOMAIN q : q[i] = c })

\* connection c holds a session whose last pong is within the timeout
\* (the sweep changes neither the sessions nor their ages)
WithinTimeout(c) == session[c] # None /\ heap[session[c]].age < keepalive_timeout

\* C29: in every keepalive sweep, each open connection that holds a
\* session whose last pong is within the timeout is sent exactly one ping
\* and is not evicted; a connection without session is sent no ping; and no
\* connection is both pinged and evicted.
C29_KeepaliveProbing ==
  ev.kind = "keepalive"
    => \A c \in Conns :
         /\ (WithinTimeout(c) /\ transport[c] = "open")
              => (Times(ev.pinged, c) = 1 /\ Times(ev.evicted, c) = 0)
         /\ session[c] = None => Times(ev.pinged, c) = 0
         /\ ~(Times(ev.pinged, c) > 0 /\ Times(ev.evicted, c) > 0)

\* a sweep ran while an open connection held the registered session, its
\* last pong within the timeout, and sent it no ping
C29_Witness ==
  /\ ev.kind = "keepalive"
  /\ \E c \in Conns :
       /\ Admitted(c) /\ WithinTimeout(c) /\ transport[c] = "open"
       /\ Times(ev.pinged, c) = 0 /\ Times(ev.evicted, c) = 0

\* the same for the connections the sweep still has in its list: those it
\* keeps hold a session within the timeout and, if open, got one ping;
\* those it evicted hold a session past the timeout
C29_ProbingOfListed ==
  ev.kind = "keepalive"
    => /\ \A i \in DOMAIN protocols :
            LET c == protocols[i] IN
            /\ WithinTimeout(c)
            /\ transport[c] = "open" => Times(ev.pinged, c) = 1
            /\ Times(ev.evicted, c) = 0
       /\ \A c \in Conns :
            /\ session[c] = None => Times(ev.pinged, c) = 0
            /\ Times(ev.pinged, c) > 0 => Times(protocols, c) = 1
            /\ Times(ev.evicted, c) > 0
                 => (session[c] # None /\ ~WithinTimeout(c) /\ Times(ev.pinged, c) = 0)

\* a sweep pinged the admitted connection
C29_WitnessPinged ==
  /\ ev.kind = "keepalive"
  /\ \E c \in Conns : Admitted(c) /\ Times(ev.pinged, c) = 1

\* C30: with a timeout multiplier of 2 or more, where every client keeps
\* its connection open, answers every ping before the next sweep and sends
\* neither a disconnect nor a header that does not decode, no sweep evicts
\* a session and the server closes no transport.
C30_NoFalseEviction ==
  /\ keepalive_timeout_multiplier >= 2
  /\ ev.kind = "keepalive" => ev.evicted = << >>
  /\ \A c \in Conns : transport[c] # "closing"

\* a launch-app message whose payload ends inside the timestamp arrived
\* on the admitted connection: the exception left data_received, the
\* transport is closed and the session is still registered
C30_Witness ==
  /\ ev.kind = "data_received"
  /\ ev.exc = "struct.error"
  /\ Len(ev.log) = 1 /\ ev.log[1].msg_type = LAUNCH_APP
  /\ transport[ev.conn] = "closing"
  /\ Admitted(ev.conn)

\* no sweep evicts, and a transport is closed only where an exception left
\* data_received
C30_NoEvictionOfPunctual ==
  /\ ev.kind = "keepalive" => ev.evicted = << >>
  /\ \A c \in Conns :
       (transport[c] = "closing" /\ ev.conn = c) => ev.exc # "none"
  /\ \A c \in Conns : WithinTimeout(c) \/ session[c] = None
                        \/ Times(protocols, c) = 0 \/ transport[c] # "open"

\* a session that was pinged twice and answered twice is registered, a
\* second old, after the third sweep
C30_WitnessAnswered ==
  /\ ev.kind = "keepalive"
  /\ \E c \in Conns :
       /\ Admitted(c) /\ transport[c] = "open"
       /\ Times(ev.pinged, c) = 1
       /\ heap[session[c]].age = keepalive_interval
       /\ unsent[c] = EncodePong

\* C31: a sweep evicts a session only if its last pong is more than the
\* timeout old; a session whose last pong is exactly the timeout old is not
\* evicted and, where the sweep sends it anything, is pinged.
C31_TimeoutBoundary ==
  ev.kind = "keepalive"
    => \A c \in Conns :
         /\ Times(ev.evicted, c) > 0 => heap[session[c]].age > keepalive_timeout
         /\ (session[c] # None /\ heap[session[c]].age = keepalive_timeout)
              => Times(ev.evicted, c) = 0

\* a sweep evicted the session of an open connection whose last pong was
\* exactly the timeout old
C31_Witness ==
  /\ ev.kind = "keepalive"
  /\ \E c \in Conns :
       /\ Times(ev.evicted, c) = 1 /\ Times(ev.pinged, c) = 0
       /\ heap[session[c]].age = keepalive_timeout
       /\ transport[c] = "closing" /\ client = None

\* the single call of a collaborator method that takes no argument
Only(method) == << [ handler |-> method, arg |-> NoMsg ] >>

\* C32: a system-action datagram from the registered client's IP makes
\* exactly one call for the ids 1, 2 and 3 - lock_screen, show_power_dialog
\* and sleep - and no call for any other id, 4 and 5 included; no exception
\* leaves datagram_received.
C32_SystemActionRouting ==
  (ev.kind = "datagram_received" /\ ev.by = "dispatched")
    => \A a \in 0..255 :
         ev.data = SystemActionEncode(7, a)
           => /\ a = LOCK_SCREEN => ev.calls = Only("system.lock_screen")
              /\ a = POWER_DIALOG => ev.calls = Only("system.show_power_dialog")
              /\ a = SLEEP => ev.calls = Only("system.sleep")
              /\ a \notin {LOCK_SCREEN, POWER_DIALOG, SLEEP} => ev.calls = << >>
              /\ ~ev.escaped

\* the registered client sent the shutdown action: dispatched, no call made
\* and nothing raised
C32_Witness ==
  /\ ev.kind = "datagram_received" /\ ev.by = "dispatched"
  /\ ev.data = SystemActionEncode(7, SHUTDOWN)
  /\ ev.calls = << >> /\ ev.caught = "none" /\ ~ev.escaped

\* the registered client sent action id 6: SystemActionId(6) raised and
\* datagram_received caught it
C32_WitnessOutside ==
  /\ ev.kind = "datagram_received" /\ ev.by = "dispatched"
  /\ ev.data = SystemActionEncode(7, 6)
  /\ ev.calls = << >> /\ ev.caught = "ValueError" /\ ~ev.escaped

\* the registered client sent the lock-screen action and lock_screen raised
C32_WitnessLock ==
  /\ ev.kind = "datagram_received" /\ ev.by = "dispatched"
  /\ ev.data = SystemActionEncode(7, LOCK_SCREEN)
  /\ ev.calls = Only("system.lock_screen") /\ ev.caught = "handler"

\* the types of the stream channel: handshake, keepalive, disconnect,
\* commands, responses and error
ControlTypes ==
  { HANDSHAKE_REQ, HANDSHAKE_ACK, HANDSHAKE_REJECT, PING, PONG, DISCONNECT,
    LAUNCH_APP, GET_SYSTEM_STATE, SYSTEM_STATE_RESPONSE, ACK, COMMAND_ERROR, ERROR }

\* the last step's datagram has a whole header with a stream-channel type
ControlDatagram(e) ==
  /\ e.kind = "datagram_received"
  /\ Len(e.data) >= HEADER_SIZE
  /\ e.data[2] \in ControlTypes

C33_WitnessDisconnect ==
  /\ ev.kind = "datagram_received" /\ ev.by = "dispatched"
  /\ ev.data = EncodeDisconnect
  /\ FromClient
  /\ \E c \in Conns : Admitted(c) /\ transport[c] = "open"

\* C34: no message is dispatched whose payload is longer than 508 bytes,
\* and no open connection is left waiting for the payload of a header that
\* declares more than 508 bytes: such a header closes the connection.
C34_OversizedPayloadRefused ==
  /\ ev.kind = "data_received"
       => \A i \in DOMAIN ev.log : Len(ev.log[i].payload) <= MaxDeclared
  /\ \A c \in Conns :
       (transport[c] = "open" /\ Len(buffer[c]) >= HEADER_SIZE)
         => U16Unpack(buffer[c], 3) <= MaxDeclared

\* a ping whose header declares 509 bytes of payload was dispatched, all 513
\* bytes there, and answered with a pong on a connection that stays open
C34_Witness ==
  /\ ev.kind = "data_received"
  /\ Len(ev.log) = 1
  /\ ev.log[1].msg_type = PING
  /\ Len(ev.log[1].payload) = MaxDeclared + 1
  /\ ev.log[1].out = << EncodePong >>
  /\ transport[ev.conn] = "open"

\* the header that declares 509 bytes is buffered on an open connection
\* that waits for the payload
C34_WitnessWaiting ==
  /\ ev.kind = "data_received" /\ ev.log = << >>
  /\ transport[ev.conn] = "open"
  /\ buffer[ev.conn] = HeaderEncode(PROTOCOL_VERSION, PING, MaxDeclared + 1)

\* connection c holds a session that the sweep evicted: the transport is
\* closed, connection_lost has not run yet, and the protocol still refers
\* to the session, which is no longer the registered one
Stale(c) ==
  transport[c] = "closing" /\ session[c] # None /\ client # session[c]

\* C35: while the connection of an evicted session S awaits its teardown,
\* no step registers S again, and what still happens on that connection -
\* its connection_lost, or bytes handed to it - leaves the slot and the
\* session registered in the meantime as they are.
C35_StaleTeardownHarmless ==
  [][ \A c \in Conns :
        Stale(c)
          => /\ client' # session[c]
             /\ (ev'.conn = c /\ ev'.kind \in {"connection_lost", "data_received"})
                  => /\ client' = client
                     /\ client # None => heap'[client] = heap[client] ]_vars

\* a session was evicted, its connection awaits connection_lost, and the
\* last step admitted another session on another connection
C35_Witness ==
  /\ ev.kind = "data_received"
  /\ Admitted(ev.conn) /\ transport[ev.conn] = "open"
  /\ \E c \in Conns : c # ev.conn /\ Stale(c)

\* a connection had its connection_lost, after a sweep had dropped it from
\* the list, while a session is registered on another, open connection,
\* and that session is still registered
C35_WitnessTornDown ==
  /\ ev.kind = "connection_lost"
  /\ transport[ev.conn] = "lost" /\ session[ev.conn] = None
  /\ \A i \in DOMAIN protocols : protocols[i] # ev.conn
  /\ \E d \in Conns : d # ev.conn /\ Admitted(d) /\ transport[d] = "open"

\* C36: the connection that holds the registered session is in the list
\* the keepalive sweep goes through.
C36_ActiveSessionMonitored ==
  \A c \in Conns : Admitted(c) => Times(protocols, c) >= 1

\* the last step admitted a session on an open connection that an earlier
\* sweep had dropped from the list
C36_Witness ==
  /\ ev.kind = "data_received"
  /\ Admitted(ev.conn) /\ transport[ev.conn] = "open"
  /\ Len(ev.log) = 1 /\ ev.log[1].msg_type = HANDSHAKE_REQ
  /\ ev.log[1].out = << AckBytes >>
  /\ Times(protocols, ev.conn) = 0

\* the connections whose protocol refers to the registered session
Holders == { c \in Conns : session[c] = client }

\* C37: a session in the slot is the session of exactly one connection,
\* and the server has not closed that connection's transport.
C37_SlotConsistency ==
  client # None
    => /\ Cardinality(Holders) = 1
       /\ \A c \in Holders : transport[c] = "open"

\* a header that does not decode arrived on the registered client's
\* connection: the server closed the transport and the session is still in
\* the slot
C37_Witness ==
  /\ ev.kind = "data_received"
  /\ ev.log = << >> /\ ev.exc = "none"
  /\ Admitted(ev.conn)
  /\ transport[ev.conn] = "closing"

\* a session in the slot is the session of exactly one connection, one
\* whose connection_lost has not run
C37_SlotHeldByOne ==
  client # None
    => /\ Cardinality(Holders) = 1
       /\ \A c \in Holders : transport[c] \in {"open", "closing"}

\* two connections hold a session each, one of them the registered one
C37_WitnessTwoSessions ==
  /\ client # None
  /\ \E c, d \in Conns :
       c # d /\ session[c] = client /\ session[d] # None /\ session[d] # client

\* the types _dispatch decodes
InputTypes ==
  { MOUSE_MOVE, MOUSE_CLICK, MOUSE_SCROLL, MOUSE_DRAG, KEY_EVENT, SYSTEM_ACTION }

\* the last step's datagram passed the sender check and the header check
\* and carries an input type
InputDispatched ==
  /\ ev.kind = "datagram_received" /\ ev.by = "dispatched"
  /\ ev.data[2] \in InputTypes

\* the prefix - the first min(declared, present) bytes behind the header -
\* holds the fixed payload of the type, every enumeration field in range
Decodable(w) == ~TooShort(w) /\ ~EnumOutOfRange(w)

\* the datagram with the same header type whose payload is exactly the
\* fixed-size head of the prefix of w
Exact(w) ==
  LET p == Slice(PayloadOf(w), 0, Needed(w[2], PayloadOf(w)))
  IN  Framed(w[2], p)

\* the calls a datagram w from the client causes
CallsFor(w) == DatagramResult(w, ev.addr, FALSE, client, heap).calls

\* C38, as the claim words it: for a datagram of an input type, a handler
\* is invoked if and only if the prefix holds the type's fixed payload with
\* every enumeration field in range; what is invoked depends on the
\* fixed-size head of the prefix alone.
C38_DatagramLengthHandling ==
  InputDispatched
    => /\ ev.calls # << >> <=> Decodable(ev.data)
       /\ ev.calls = CallsFor(Exact(ev.data))
       /\ ~ev.escaped

\* C38: for a datagram of an input type, a handler is invoked - once - if
\* and only if the prefix holds the type's fixed payload with every
\* enumeration field in range and, for a system action, the id is 1, 2 or
\* 3 (the ids 4, shutdown, and 5, restart, decode and invoke nothing); what
\* is invoked depends on the fixed-size head of the prefix alone.
C38_DatagramLengthHandlingRouted ==
  InputDispatched
    => /\ ev.calls # << >>
            <=> /\ Decodable(ev.data)
                /\ ev.data[2] = SYSTEM_ACTION
                     => PayloadOf(ev.data)[5] \in {LOCK_SCREEN, POWER_DIALOG, SLEEP}
       /\ Len(ev.calls) <= 1
       /\ ev.calls = CallsFor(Exact(ev.data))
       /\ ~ev.escaped

\* a mouse-move whose header declares 12 bytes, 8 of them there, was handed
\* to handle_move
C38_Witness ==
  /\ InputDispatched
  /\ ev.data[2] = MOUSE_MOVE
  /\ U16Unpack(ev.data, 3) = 12 /\ Len(ev.data) = HEADER_SIZE + 8
  /\ Len(ev.calls) = 1
  /\ ev.calls[1].handler = "mouse.handle_move"
  /\ ev.calls[1].arg = [ kind |-> "MouseMove", timestamp |-> 7, dx |-> 3, dy |-> -2 ]

\* a mouse-move whose header declares 3 bytes, 8 of them there, was dropped
C38_WitnessDeclaredShort ==
  /\ InputDispatched
  /\ ev.data[2] = MOUSE_MOVE
  /\ U16Unpack(ev.data, 3) = 3 /\ Len(ev.data) = HEADER_SIZE + 8
  /\ ev.calls = << >> /\ ev.caught = "struct.error"

\* a click with four bytes behind the six its header declares was handed to
\* handle_click
C38_WitnessTrailing ==
  /\ InputDispatched
  /\ ev.data[2] = MOUSE_CLICK
  /\ U16Unpack(ev.data, 3) = 6 /\ Len(ev.data) = HEADER_SIZE + 10
  /\ Len(ev.calls) = 1 /\ ev.calls[1].handler = "mouse.handle_click"

\* the payload has the timestamp and the length byte, and no byte of the
\* name it declares is there: the decoded name is empty
EmptyName(payload) ==
  Len(payload) >= 5 /\ Slice(payload, 5, 5 + payload[5]) = << >>

C39_WitnessDeclared ==
  \E i \in DOMAIN ev.log :
    LET e == ev.log[i] IN
    /\ e.msg_type = LAUNCH_APP /\ ~e.pre.closing
    /\ e.payload = U32Pack(7) \o << 3 >>
    /\ e.out = << CommandErrorZero >> /\ e.calls = << >>

====
